---- MODULE Spec2Model ----
(***************************************************************************)
(* Model of the PDF structuring pipeline: AIProcessor.structure_text and   *)
(* AIProcessor.process_document (src/ai_processor.py) over the page and    *)
(* document collections of MongoDBManager (src/database.py), of the reads  *)
(* MongoDBManager offers on a stored document, of the life of a document   *)
(* from save_pdf_with_pages to delete_document, and of the uploads and     *)
(* background threads of the web application (src/app.py).                 *)
(*                                                                         *)
(* Python values are modelled as tagged records so that a reply of the     *)
(* language model may carry a value of any JSON type under any key.        *)
(* Texts are sequences of character codes (0 is a whitespace character).   *)
(***************************************************************************)
EXTENDS Integers, Sequences, FiniteSets, TLC

VARIABLES
    st,               \* one call of structure_text: its arguments and its outcome
    view,             \* one read of a stored document through MongoDBManager: the
                      \* document, its pages and what the read returned
    gds,              \* one call of generate_document_summary: its argument, the
                      \* outcome of the external call and what the call gave
    ocr,              \* one call of _needs_ocr: the document inspected and the answer
    db,               \* calls of MongoDBManager on the document from outside the task:
                      \* what the save was given and returned, how far the save and
                      \* delete_document have come, the number of direct calls
    app,              \* the web application: the documents uploaded and their tasks
    page_store,       \* pages collection of one document: page_num -> page record
    doc_record,       \* the document's record in the documents collection
    pc,               \* position of the process_document task
    client,           \* whether the AIProcessor of the running task has api_key and client
    pages,            \* local list pages loaded by get_raw_text at the start of the run
    idx,              \* loop index of the for loop over pages
    all_summaries,    \* local list all_summaries
    all_keywords,     \* local list all_keywords
    processed_count,  \* local counter processed_count
    failed_count,     \* local counter failed_count
    visit_log,        \* history: what the current run did at each page it visited (the
                      \* values of an attempt are kept when they reached the page store)
    meta_calls,       \* history: number of _update_document_metadata calls the run
                      \* has made and seen return
    meta_input,       \* history: page_summaries handed to _update_document_metadata
    doc_at_start,     \* history: the document record when the current run started
    runs              \* number of process_document runs started

pipeline_vars == <<db, app, page_store, doc_record, pc, client, pages, idx, all_summaries,
                   all_keywords, processed_count, failed_count, visit_log,
                   meta_calls, meta_input, doc_at_start, runs>>

\* the variables of a single run of process_document
run_vars == <<page_store, doc_record, pc, client, pages, idx, all_summaries, all_keywords,
              processed_count, failed_count, visit_log, meta_calls, meta_input,
              doc_at_start, runs>>

vars == <<st, view, gds, ocr, db, app, page_store, doc_record, pc, client, pages, idx, all_summaries,
          all_keywords, processed_count, failed_count, visit_log,
          meta_calls, meta_input, doc_at_start, runs>>

Min(a, b) == IF a < b THEN a ELSE b

Max(a, b) == IF a > b THEN a ELSE b

Range(s) == {s[i] : i \in DOMAIN s}

(***************************************************************************)
(* Python / JSON values.  t is the type, s the payload of a str or a       *)
(* number (its digits), q the items of a list, d the items of a dict.      *)
(***************************************************************************)
VStr(x) == [t |-> "str", s |-> x, q |-> <<>>, d |-> {}]

VNum(x) == [t |-> "num", s |-> x, q |-> <<>>, d |-> {}]

VNull == [t |-> "null", s |-> "", q |-> <<>>, d |-> {}]

VList(xs) == [t |-> "list", s |-> "", q |-> xs, d |-> {}]

VDict(ps) == [t |-> "dict", s |-> "", q |-> <<>>, d |-> ps]

\* bool(v) of Python, the test of an if statement
Truthy(v) ==
    CASE v.t = "str" -> v.s # ""
      [] v.t = "num" -> v.s # "0"
      [] v.t = "null" -> FALSE
      [] v.t = "list" -> v.q # <<>>
      [] v.t = "dict" -> v.d # {}

\* v[:n] is defined for str and list only (TypeError otherwise)
Sliceable(v) == v.t \in {"str", "list"}

\* iteration over v is defined for str, list and dict (TypeError otherwise)
Iterable(v) == v.t \in {"str", "list", "dict"}

\* a Python dict with string keys: a function from its keys to values
EmptyDict == [k \in {} |-> VNull]

\* d[k] = v
SetKey(d, k, v) == [x \in (DOMAIN d) \cup {k} |-> IF x = k THEN v ELSE d[x]]

\* an update in which the values already in d win over those of e
DictUpdateKeepOld(d, e) ==
    [x \in (DOMAIN d) \cup (DOMAIN e) |-> IF x \in DOMAIN d THEN d[x] ELSE e[x]]

\* d.update(e)
DictUpdate(d, e) == [x \in (DOMAIN d) \cup (DOMAIN e) |-> IF x \in DOMAIN e THEN e[x] ELSE d[x]]

\* d.get(k, dflt)
DictGet(d, k, dflt) == IF k \in DOMAIN d THEN d[k] ELSE dflt

(***************************************************************************)
(* structure_text                                                          *)
(***************************************************************************)
RequiredKeys == {"summary", "keywords", "sections", "measurements", "key_fields", "tables"}

get_default_structure ==
    [summary |-> VStr(""), keywords |-> VList(<<>>), sections |-> VList(<<>>),
     measurements |-> VList(<<>>), key_fields |-> VDict({}), tables |-> VList(<<>>),
     processing_status |-> VStr("failed")]

DefaultTagged(tag) == SetKey(get_default_structure, "processing_status", VStr(tag))

\* default of the parameter max_chars
DefaultMaxChars == 8000

\* len("\n\n[...middle content truncated...]\n\n")
MarkerLen == 36

\* the elision marker: MarkerLen characters that occur in no modelled text
ElisionMarker == [i \in 1..MarkerLen |-> -1]

\* largest power of two strictly below n (n >= 2)
RECURSIVE Pow2Below(_, _)
Pow2Below(n, p) == IF 2 * p < n THEN Pow2Below(n, 2 * p) ELSE p

\* int(max_chars * 0.7) in IEEE double arithmetic.  The double nearest 0.7 is
\* 0.7 - 0.4 * 2^-53, so the product with a multiple of ten, whose exact value
\* is the integer I = 7m/10 minus 0.4m * 2^-53, rounds to the double just
\* below I when I > 1.75 * 2^k for the power 2^k < I <= 2^(k+1); int() then
\* gives I - 1.  Every other product keeps a fractional part of at least 0.1.
IntMul07(m) ==
    LET I == (7 * m) \div 10
    IN  IF m % 10 = 0 /\ I >= 2 /\ 4 * I > 7 * Pow2Below(I, 1) THEN I - 1 ELSE I

\* int(max_chars * 0.3): the double nearest 0.3 is 0.3 - 0.1 * 2^-53 and the
\* product never rounds below an integer
IntMul03(m) == (3 * m) \div 10

\* s[:n] for n >= 0
SliceTo(s, n) == SubSeq(s, 1, Min(n, Len(s)))

\* s[-n:] for n >= 0; -0 is 0, so s[-0:] is s[0:], the whole of s
SliceLast(s, n) ==
    LET start == IF n > 0 THEN Max(Len(s) - n, 0) ELSE 0
    IN  SubSeq(s, start + 1, Len(s))

\* the text of n distinct non-blank characters 1..n
Text(n) == [i \in 1..n |-> i]

\* text_to_process
Truncate(raw_text, max_chars) ==
    IF Len(raw_text) > max_chars
    THEN SliceTo(raw_text, IntMul07(max_chars)) \o ElisionMarker
            \o SliceLast(raw_text, IntMul03(max_chars))
    ELSE raw_text

\* raw_text.strip(): leading and trailing whitespace removed
RECURSIVE LStrip(_)
LStrip(s) == IF s # <<>> /\ Head(s) = 0 THEN LStrip(Tail(s)) ELSE s

RECURSIVE RStrip(_)
RStrip(s) == IF s # <<>> /\ s[Len(s)] = 0 THEN RStrip(SubSeq(s, 1, Len(s) - 1)) ELSE s

Strip(s) == RStrip(LStrip(s))

(***************************************************************************)
(* The reply of the external call is a sequence of tokens: the markdown    *)
(* fences, a blank, or a body.  JsonBodies are the bodies json.loads       *)
(* accepts, with the value each parses to; any other body, an empty reply  *)
(* and a reply of several bodies are not JSON.                             *)
(***************************************************************************)
\* the token of a markdown fence opening a json block
FenceJson == "<fence json>"

\* the token of a bare markdown fence
Fence == "<fence>"

Blank == " "

\* content.replace(FenceJson, "").replace(Fence, "").strip()
RECURSIVE RemoveToken(_, _)
RemoveToken(c, tok) ==
    IF c = <<>> THEN <<>>
    ELSE IF Head(c) = tok THEN RemoveToken(Tail(c), tok)
    ELSE <<Head(c)>> \o RemoveToken(Tail(c), tok)

RECURSIVE LStripBlank(_)
LStripBlank(c) == IF c # <<>> /\ Head(c) = Blank THEN LStripBlank(Tail(c)) ELSE c

RECURSIVE RStripBlank(_)
RStripBlank(c) ==
    IF c # <<>> /\ c[Len(c)] = Blank THEN RStripBlank(SubSeq(c, 1, Len(c) - 1)) ELSE c

CleanContent(c) == RStripBlank(LStripBlank(RemoveToken(RemoveToken(c, FenceJson), Fence)))

\* a parsed top-level JSON value: an object (t = "dict", members in obj) or
\* another value (a list with items q, a string s, a number s, null)
PObj(o) == [t |-> "dict", s |-> "", q |-> <<>>, obj |-> o]

PVal(v) == [t |-> v.t, s |-> v.s, q |-> v.q, obj |-> EmptyDict]

WellTyped(summary, keywords) ==
    [summary |-> summary, keywords |-> keywords, sections |-> VList(<<"sec">>),
     measurements |-> VList(<<"m">>), key_fields |-> VDict({<<"invoice_date", "2024-01-01">>}),
     tables |-> VList(<<>>)]

\* number of keywords of the reply that carries more than the document keeps
NumManyKeywords == 32

\* the keywords a, k1, k2, ... of that reply
ManyKeywords == [i \in 1..NumManyKeywords |-> IF i = 1 THEN "a" ELSE "k" \o ToString(i - 1)]

JsonBodies ==
    [good1    |-> PObj(WellTyped(VStr("S1"), VList(<<"a", "b">>))),
     good2    |-> PObj(WellTyped(VStr("S2"), VList(<<"b", "c">>))),
     good3    |-> PObj(WellTyped(VStr("S3"), VList(<<"c", "a">>))),
     nosum    |-> PObj(WellTyped(VStr(""), VList(<<"a">>))),
     numsum   |-> PObj(WellTyped(VNum("5"), VList(<<"a">>))),
     numkw    |-> PObj(WellTyped(VStr("S1"), VNum("7"))),
     nulls    |-> PObj(WellTyped(VNull, VNull)),
     nullsum  |-> PObj(WellTyped(VNull, VList(<<"c">>))),
     extra    |-> PObj(SetKey(WellTyped(VStr("S1"), VList(<<"a">>)), "language", VStr("de"))),
     tagged   |-> PObj(SetKey(WellTyped(VStr("S2"), VList(<<>>)), "processing_status", VStr("done"))),
     many     |-> PObj(WellTyped(VStr("S4"), VList(ManyKeywords))),
     partial  |-> PObj([summary |-> VStr("P"), keywords |-> VList(<<"c">>)]),
     empty    |-> PObj(EmptyDict),
     list     |-> PVal(VList(<<"x">>)),
     keylist  |-> PVal(VList(<<"summary", "keywords", "sections", "measurements",
                              "key_fields", "tables">>)),
     string   |-> PVal(VStr("text")),
     number   |-> PVal(VNum("5")),
     null     |-> PVal(VNull)]

\* json.loads(clean_content) succeeds
IsJson(c) == Len(c) = 1 /\ c[1] \in DOMAIN JsonBodies

\* json.loads(clean_content)
JsonLoads(c) == JsonBodies[c[1]]

\* (key in data): membership in the keys of a dict or the items of a list, substring of
\* a str (no modelled string contains a required key), TypeError otherwise
KeyIn(key, data) ==
    CASE data.t = "dict" -> IF key \in DOMAIN data.obj THEN "true" ELSE "false"
      [] data.t = "list" -> IF key \in Range(data.q) THEN "true" ELSE "false"
      [] data.t = "str" -> "false"
      [] OTHER -> "TypeError"

\* all(key in data for key in required_keys)
validate_structure(data) ==
    IF \E k \in RequiredKeys : KeyIn(k, data) = "TypeError" THEN "TypeError"
    ELSE IF \A k \in RequiredKeys : KeyIn(k, data) = "true" THEN "true"
    ELSE "false"

(***************************************************************************)
(* Exceptions: the classes the external call can raise and the ones the    *)
(* body of the try block raises itself, each with its base classes.        *)
(***************************************************************************)
Bases(exc) ==
    CASE exc = "AuthenticationError" -> {"AuthenticationError", "APIStatusError", "APIError", "Exception"}
      [] exc = "RateLimitError" -> {"RateLimitError", "APIStatusError", "APIError", "Exception"}
      [] exc = "InternalServerError" -> {"InternalServerError", "APIStatusError", "APIError", "Exception"}
      [] exc = "APITimeoutError" -> {"APITimeoutError", "APIConnectionError", "APIError", "Exception"}
      [] exc = "APIError" -> {"APIError", "Exception"}
      [] OTHER -> {exc, "Exception"}

\* the except clauses of structure_text in source order: class caught, tag returned
except_clauses_swapped ==
    << <<"APIError", "api_error">>, <<"AuthenticationError", "auth_error">>,
       <<"RateLimitError", "rate_limit_error">>, <<"Exception", "unknown_error">> >>

except_clauses_narrow ==
    << <<"AuthenticationError", "auth_error">>, <<"RateLimitError", "rate_limit_error">>,
       <<"APIError", "api_error">> >>

except_clauses ==
    << <<"AuthenticationError", "auth_error">>, <<"RateLimitError", "rate_limit_error">>,
       <<"APIError", "api_error">>, <<"Exception", "unknown_error">> >>

\* the tag of the first clause that catches exc, "" when none does
RECURSIVE HandlerTag(_, _)
HandlerTag(clauses, exc) ==
    IF clauses = <<>> THEN ""
    ELSE IF Head(clauses)[1] \in Bases(exc) THEN Head(clauses)[2]
    ELSE HandlerTag(Tail(clauses), exc)

\* outcomes of the external call chat.completions.create
Raise(exc) == [kind |-> "raise", exc |-> exc, content |-> <<>>]

Reply(c) == [kind |-> "reply", exc |-> "", content |-> c]

ReplyNone == [kind |-> "none", exc |-> "", content |-> <<>>]

\* the body of the try block (lines 117-161): the exception it ends with
\* ("" when it returns) and the value it returns
Returned(r) == [exc |-> "", ret |-> r]

Raised(exc) == [exc |-> exc, ret |-> EmptyDict]

try_body(outcome) ==
    IF outcome.kind = "raise" THEN Raised(outcome.exc)
    ELSE IF outcome.kind = "none" THEN Raised("TypeError")
    ELSE LET clean_content == CleanContent(outcome.content) IN
         IF ~IsJson(clean_content) THEN Returned(DefaultTagged("json_error"))
         ELSE LET data == JsonLoads(clean_content)
                  valid == validate_structure(data)
              IN  IF valid = "TypeError" THEN Raised("TypeError")
                  ELSE IF valid = "true"
                  THEN IF data.t = "dict"
                       THEN Returned(SetKey(data.obj, "processing_status", VStr("success")))
                       ELSE Raised("TypeError")
                  ELSE IF data.t = "dict"
                       THEN Returned(SetKey(DictUpdate(get_default_structure, data.obj),
                                            "processing_status", VStr("partial_success")))
                       ELSE Raised("AttributeError")

\* structure_text(raw_text, max_chars) of a processor with or without a client,
\* for one outcome of the external call: whether the call was made, the text
\* sent, whether the method raised to its caller, and the structure returned
StResult(called, sent, raised, result) ==
    [called |-> called, sent |-> sent, raised |-> raised, result |-> result]

\* structure_text with the test of line 77 reduced to the empty string
structure_text_strict_empty(has_client, raw_text, max_chars, outcome) ==
    IF ~has_client THEN StResult(FALSE, <<>>, FALSE, DefaultTagged("no_api_key"))
    ELSE IF raw_text = <<>>
    THEN StResult(FALSE, <<>>, FALSE, DefaultTagged("empty_text"))
    ELSE LET text_to_process == Truncate(raw_text, max_chars)
             body == try_body(outcome)
             tag == HandlerTag(except_clauses, body.exc)
         IN  IF body.exc = "" THEN StResult(TRUE, text_to_process, FALSE, body.ret)
             ELSE IF tag # "" THEN StResult(TRUE, text_to_process, FALSE, DefaultTagged(tag))
             ELSE StResult(TRUE, text_to_process, TRUE, EmptyDict)

structure_text(has_client, raw_text, max_chars, outcome) ==
    IF ~has_client THEN StResult(FALSE, <<>>, FALSE, DefaultTagged("no_api_key"))
    ELSE IF raw_text = <<>> \/ Len(Strip(raw_text)) = 0
    THEN StResult(FALSE, <<>>, FALSE, DefaultTagged("empty_text"))
    ELSE LET text_to_process == Truncate(raw_text, max_chars)
             body == try_body(outcome)
             tag == HandlerTag(except_clauses, body.exc)
         IN  IF body.exc = "" THEN StResult(TRUE, text_to_process, FALSE, body.ret)
             ELSE IF tag # "" THEN StResult(TRUE, text_to_process, FALSE, DefaultTagged(tag))
             ELSE StResult(TRUE, text_to_process, TRUE, EmptyDict)

(***************************************************************************)
(* The page and document collections (src/database.py)                     *)
(***************************************************************************)
\* the page record save_pdf_with_pages inserts for an extracted page
NewPage(page_num, raw_text) ==
    [page_num |-> page_num, raw_text |-> raw_text, status |-> "raw",
     page_summary |-> VStr(""), keywords |-> VList(<<>>), structured_data |-> EmptyDict]

\* the document record save_pdf_with_pages inserts
NewDocument == [status |-> "raw", document_summary |-> VStr(""), keywords |-> <<>>]

\* the first step of save_pdf_with_pages (lines 115-149) and of
\* save_pdf_pages (lines 193-212), up to insert_one: the document record in
\* the collection after it and the value the call returns when it ends
\* here, "" when it goes on.  fault is where the call fails:
\* "not_connected" at the test of the collections, "insert_one" at
\* insert_one; propagates tells that no except clause of the function
\* takes the exception
insert_document(fault, propagates) ==
    IF fault = "not_connected" THEN [doc |-> EmptyDict, ret |-> "None"]
    ELSE IF fault = "insert_one"
    THEN [doc |-> EmptyDict, ret |-> IF propagates THEN "raised" ELSE "None"]
    ELSE [doc |-> NewDocument, ret |-> ""]

\* the second step of save_pdf_with_pages (lines 151-180) and of
\* save_pdf_pages (lines 214-238): the page records in the collection
\* after it and the value returned.  With fault "insert_many" insert_many
\* raises after the first inserted records were written (it is ordered and
\* keeps what it wrote before the failure)
insert_pages(pages_data, fault, inserted, propagates) ==
    LET page_records == [i \in 1..Len(pages_data) |->
                            NewPage(pages_data[i].page_num, pages_data[i].raw_text)]
    IN  IF page_records = <<>> THEN [store |-> <<>>, ret |-> "None"]
        ELSE IF fault = "insert_many"
        THEN [store |-> SubSeq(page_records, 1, inserted),
              ret |-> IF propagates THEN "raised" ELSE "None"]
        ELSE [store |-> page_records, ret |-> "doc_id"]

\* the two steps of a save one after the other, with no other caller
\* between them
SaveUninterrupted(pages_data, fault, inserted, propagates) ==
    LET first == insert_document(fault, propagates)
        second == insert_pages(pages_data, fault, inserted, propagates)
    IN  IF first.ret # "" THEN [doc |-> first.doc, store |-> <<>>, ret |-> first.ret]
        ELSE [doc |-> first.doc, store |-> second.store, ret |-> second.ret]

\* save_pdf_with_pages(pdf_path, filename, pages_data): the two collections
\* after an uninterrupted call and the value returned.  Its except clauses
\* (lines 175-180) take every exception
save_pdf_with_pages(pages_data, fault, inserted) ==
    SaveUninterrupted(pages_data, fault, inserted, FALSE)

\* save_pdf_pages(filename, pages_data), the legacy save: the same inserts;
\* its only except clause (line 236) takes OperationFailure, an exception
\* exc of another class reaches the caller
save_pdf_pages(pages_data, fault, exc, inserted) ==
    SaveUninterrupted(pages_data, fault, inserted, exc # "OperationFailure")

\* get_raw_text(doc_id): the pages of the document sorted by page_num, []
\* when the read fails (the pages collection is unavailable, lines 317-318,
\* or find raises, lines 328-330: load_ok is false).  process_document
\* passes no page_num, so the filter of lines 321-322 stays off
get_raw_text(store, load_ok) ==
    IF load_ok THEN [i \in 1..Len(store) |-> store[i]] ELSE <<>>

\* an update that replaces the record instead of setting fields of it: the
\* text of the page is not carried over
UpdateFieldsReplace(page, structured_data, page_summary, keywords) ==
    [page_num |-> page.page_num, raw_text |-> <<>>, status |-> "structured",
     page_summary |-> page_summary, keywords |-> keywords,
     structured_data |-> IF structured_data # <<>> THEN structured_data[1] ELSE EmptyDict]

\* a $set whose status follows the outcome of the attempt: structured for a
\* structured_data tagged success, raw otherwise
UpdateFieldsByOutcome(page, structured_data, page_summary, keywords) ==
    [page EXCEPT !.status = IF /\ structured_data # <<>>
                               /\ DictGet(structured_data[1], "processing_status", VNull)
                                      = VStr("success")
                            THEN "structured" ELSE "raw",
                 !.structured_data = IF structured_data # <<>> THEN structured_data[1] ELSE @,
                 !.page_summary = IF page_summary.t # "null" THEN page_summary ELSE @,
                 !.keywords = IF keywords.t # "null" THEN keywords ELSE @]

\* the $set of update_page_data: status always, each other field when its
\* argument is not None.  structured_data is <<d>> when given, <<>> when None;
\* page_summary and keywords are values, VNull being None
UpdateFields(page, structured_data, page_summary, keywords) ==
    [page EXCEPT !.status = "structured",
                 !.structured_data = IF structured_data # <<>> THEN structured_data[1] ELSE @,
                 !.page_summary = IF page_summary.t # "null" THEN page_summary ELSE @,
                 !.keywords = IF keywords.t # "null" THEN keywords ELSE @]

\* update_page_data: the store after the call and the value returned.  db_ok
\* is false when the collection is unavailable or update_one raises; the page
\* matched is always modified because updated_at changes
update_page_data(store, page_num, structured_data, page_summary, keywords, db_ok) ==
    IF db_ok /\ page_num \in DOMAIN store
    THEN [store |-> [store EXCEPT ![page_num] =
                        UpdateFields(store[page_num], structured_data, page_summary, keywords)],
          ret |-> TRUE]
    ELSE [store |-> store, ret |-> FALSE]

(***************************************************************************)
(* generate_document_summary and _update_document_metadata                 *)
(***************************************************************************)
\* number of unique keywords kept on the document
KeywordCap == 30

\* list(xs): every item kept
AllItems(xs, seen) == xs

\* list(dict.fromkeys(xs)): the first occurrence of each item, in order
RECURSIVE Unique(_, _)
Unique(xs, seen) ==
    IF xs = <<>> THEN <<>>
    ELSE IF Head(xs) \in seen THEN Unique(Tail(xs), seen)
    ELSE <<Head(xs)>> \o Unique(Tail(xs), seen \cup {Head(xs)})

\* the tokens of a reply joined into one string
RECURSIVE Join(_)
Join(c) == IF c = <<>> THEN "" ELSE Head(c) \o Join(Tail(c))

\* generate_document_summary without the shortcut of lines 330-331
generate_document_summary_no_shortcut(page_summaries, outcome) ==
    IF page_summaries = <<>> THEN [raised |-> FALSE, called |-> FALSE, ret |-> VStr("")]
    ELSE IF outcome.kind = "reply"
    THEN [raised |-> FALSE, called |-> TRUE,
          ret |-> VStr(Join(RStripBlank(LStripBlank(outcome.content))))]
    ELSE IF page_summaries[1].t = "str"
    THEN [raised |-> FALSE, called |-> TRUE,
          ret |-> VStr("Document with " \o ToString(Len(page_summaries)) \o " pages. "
                        \o page_summaries[1].s)]
    ELSE [raised |-> TRUE, called |-> TRUE, ret |-> VNull]

\* generate_document_summary(page_summaries) for one outcome of the external
\* summarization call: the value returned, or raised when the fallback
\* of the except clause fails itself
generate_document_summary(page_summaries, outcome) ==
    IF page_summaries = <<>> THEN [raised |-> FALSE, called |-> FALSE, ret |-> VStr("")]
    ELSE IF Len(page_summaries) = 1
    THEN [raised |-> FALSE, called |-> FALSE, ret |-> page_summaries[1]]
    ELSE IF outcome.kind = "reply"
    THEN [raised |-> FALSE, called |-> TRUE,
          ret |-> VStr(Join(RStripBlank(LStripBlank(outcome.content))))]
    ELSE IF page_summaries[1].t = "str"
    THEN [raised |-> FALSE, called |-> TRUE,
          ret |-> VStr("Document with " \o ToString(Len(page_summaries)) \o " pages. "
                        \o page_summaries[1].s)]
    ELSE [raised |-> TRUE, called |-> TRUE, ret |-> VNull]

\* len(v) is defined for str, list and dict (TypeError otherwise)
HasLen(v) == v.t \in {"str", "list", "dict"}

\* _update_document_metadata: the document record after the call.  Its try
\* block absorbs an exception of generate_document_summary and the TypeError
\* of len(doc_summary) in the log line before update_one; update_one changes
\* nothing when the document is not in the collection.  The write is left
\* out when the documents collection is unavailable (line 386) and absorbed
\* when update_one raises (lines 400-401): db_ok is false and the record
\* stays as it was
update_document_metadata(doc, page_summaries, keywords, outcome, db_ok) ==
    LET doc_summary == generate_document_summary(page_summaries, outcome)
        unique_keywords == SliceTo(Unique(keywords, {}), KeywordCap)
    IN  IF doc_summary.raised \/ ~HasLen(doc_summary.ret) \/ ~db_ok \/ doc = EmptyDict THEN doc
        ELSE [doc EXCEPT !.document_summary = doc_summary.ret,
                         !.keywords = unique_keywords,
                         !.status = "structured"]

(***************************************************************************)
(* process_document                                                        *)
(***************************************************************************)
\* page_summary of the pages a run without credential marks
SentinelBlank == VStr("")

Sentinel == VStr("[No API key - processing skipped]")

\* the test of line 247: the page is skipped
ShouldSkipInverted(page) == page.status = "structured" /\ ~Truthy(page.page_summary)

ShouldSkip(page) == page.status = "structured" /\ Truthy(page.page_summary)

\* the items list.extend(v) appends; the modelled replies carry no str or
\* dict under keywords, whose characters or keys extend would append
IterItems(v) == IF v.t = "list" THEN v.q ELSE <<>>

\* lines 271-308 of an iteration, r being what structure_text gave: the point
\* where the iteration raises ("" when it completes) and the values of the
\* locals after it, for one outcome of the database
AfterStructureText(page, r, db_ok, store, summaries, keywords_acc, processed, failed) ==
    LET structured_data == r.result
        processing_status == DictGet(structured_data, "processing_status", VStr("unknown"))
        failed1 == IF processing_status = VStr("no_api_key") THEN failed + 1 ELSE failed
        processed1 == IF processing_status = VStr("no_api_key") THEN processed ELSE processed + 1
        page_summary == DictGet(structured_data, "summary", VStr(""))
        keywords == DictGet(structured_data, "keywords", VList(<<>>))
        upd == update_page_data(store, page.page_num, <<structured_data>>, page_summary,
                                keywords, db_ok)
        entry == [page_num |-> page.page_num, skipped |-> FALSE, called |-> r.called,
                  result |-> structured_data, page_summary |-> page_summary,
                  keywords |-> keywords, persist |-> "none"]
        before == [raise |-> "", store |-> store, summaries |-> summaries,
                   keywords_acc |-> keywords_acc, processed |-> processed1,
                   failed |-> failed1, entry |-> entry]
    IN  IF r.raised
        THEN [before EXCEPT !.raise = "structure_text", !.processed = processed, !.failed = failed]
        ELSE IF Truthy(page_summary) /\ ~Sliceable(page_summary)
        THEN [before EXCEPT !.raise = "page_summary[:80]"]
        ELSE IF Truthy(keywords) /\ ~Sliceable(keywords)
        THEN [before EXCEPT !.raise = "keywords[:5]"]
        ELSE IF ~upd.ret
        THEN [before EXCEPT !.failed = failed1 + 1,
                            !.entry = [entry EXCEPT !.persist = "failed", !.result = EmptyDict,
                                                    !.page_summary = VNull, !.keywords = VNull]]
        ELSE IF ~Iterable(keywords)
        THEN [before EXCEPT !.raise = "all_keywords.extend", !.store = upd.store,
                            !.summaries = Append(summaries, page_summary),
                            !.entry.persist = "ok"]
        ELSE [before EXCEPT !.store = upd.store,
                            !.summaries = Append(summaries, page_summary),
                            !.keywords_acc = keywords_acc \o IterItems(keywords),
                            !.entry.persist = "ok"]

\* lines 247-260 of an iteration for a page that is skipped: the point
\* where it raises and the values of the locals after it
SkipIteration(page, store, summaries, keywords_acc, processed, failed) ==
    LET existing_summary == page.page_summary
        existing_keywords == page.keywords
        raises == Truthy(existing_keywords) /\ ~Iterable(existing_keywords)
    IN  [raise |-> IF raises THEN "all_keywords.extend" ELSE "",
         store |-> store,
         summaries |-> IF Truthy(existing_summary)
                       THEN Append(summaries, existing_summary) ELSE summaries,
         keywords_acc |-> IF Truthy(existing_keywords)
                          THEN keywords_acc \o IterItems(existing_keywords) ELSE keywords_acc,
         processed |-> IF raises THEN processed ELSE processed + 1,
         failed |-> failed,
         entry |-> [page_num |-> page.page_num, skipped |-> TRUE, called |-> FALSE,
                    result |-> EmptyDict, page_summary |-> existing_summary,
                    keywords |-> existing_keywords, persist |-> "none"]]

\* lines 218-226 of an iteration of the branch without credential: the page
\* is marked with the default structure and the sentinel summary
MarkIteration(page, db_ok, store) ==
    update_page_data(store, page.page_num, <<get_default_structure>>, Sentinel,
                     VList(<<>>), db_ok)

\* the iteration from its call of structure_text (line 269) on
Iteration(page, outcome, db_ok, store, summaries, keywords_acc, processed, failed) ==
    AfterStructureText(page, structure_text(TRUE, page.raw_text, DefaultMaxChars, outcome),
                       db_ok, store, summaries, keywords_acc, processed, failed)

(***************************************************************************)
(* Reads of a stored document (src/database.py).  A stored page is a       *)
(* record with page_num, status and, unless the field is missing, the      *)
(* structured_data value; doc is EmptyDict when the document is unknown.   *)
(***************************************************************************)
\* sorted(pages, key=page_num) by insertion; page numbers are distinct
RECURSIVE InsertByPageNum(_, _)
InsertByPageNum(sorted, page) ==
    IF sorted = <<>> THEN <<page>>
    ELSE IF page.page_num < Head(sorted).page_num THEN <<page>> \o sorted
    ELSE <<Head(sorted)>> \o InsertByPageNum(Tail(sorted), page)

RECURSIVE SortByPageNum(_)
SortByPageNum(ps) ==
    IF ps = <<>> THEN <<>>
    ELSE InsertByPageNum(SortByPageNum(SubSeq(ps, 1, Len(ps) - 1)), ps[Len(ps)])

\* get_document_details without the sort of line 428
get_document_details_unsorted(doc, stored_pages, read_ok) ==
    IF ~read_ok \/ doc = EmptyDict THEN [found |-> FALSE, doc |-> EmptyDict, pages |-> <<>>]
    ELSE [found |-> TRUE, doc |-> doc, pages |-> stored_pages]

\* get_document_details: None (found false) for an unknown document and
\* when the read fails (a collection is unavailable, lines 419-420, or
\* find_one or find raises, lines 443-445: read_ok is false), else the
\* document with its pages sorted by page_num
get_document_details(doc, stored_pages, read_ok) ==
    IF ~read_ok \/ doc = EmptyDict THEN [found |-> FALSE, doc |-> EmptyDict, pages |-> <<>>]
    ELSE [found |-> TRUE, doc |-> doc, pages |-> SortByPageNum(stored_pages)]

\* page.get("structured_data"): None when the field is missing
GetStructuredData(page) ==
    IF "structured_data" \in DOMAIN page THEN page.structured_data ELSE PVal(VNull)

\* bool(s_data) of a stored value
TruthyStored(v) ==
    CASE v.t = "dict" -> v.obj # EmptyDict
      [] v.t = "str" -> v.s # ""
      [] v.t = "num" -> v.s # "0"
      [] v.t = "null" -> FALSE
      [] v.t = "list" -> v.q # <<>>

\* the collecting lines with the items already collected left out
ExtendNew(acc, s_data, field) ==
    LET v == DictGet(s_data.obj, field, VList(<<>>))
    IN  IF v.t = "list" THEN acc \o SelectSeq(v.q, LAMBDA x : x \notin Range(acc)) ELSE acc

\* unified_doc[name] after the lines that collect the field of one page:
\* s_data.get(field, []) is appended when it is a list
Extend(acc, s_data, field) ==
    LET v == DictGet(s_data.obj, field, VList(<<>>))
    IN  IF v.t = "list" THEN acc \o v.q ELSE acc

\* all_key_fields.update(key_fields): the items of the dict overwrite
UpdateItems(acc, items) ==
    [k \in (DOMAIN acc) \cup {p[1] : p \in items} |->
        IF \E p \in items : p[1] = k THEN (CHOOSE p \in items : p[1] = k)[2] ELSE acc[k]]

\* one iteration of the loop of lines 475-498
AggregatePage(u, page) ==
    LET s_data == GetStructuredData(page)
        key_fields == DictGet(s_data.obj, "key_fields", VDict({}))
    IN  IF ~TruthyStored(s_data) \/ s_data.t # "dict" THEN u
        ELSE [u EXCEPT !.all_sections = Extend(@, s_data, "sections"),
                       !.all_measurements = Extend(@, s_data, "measurements"),
                       !.all_key_fields = IF key_fields.t = "dict"
                                          THEN UpdateItems(@, key_fields.d) ELSE @,
                       !.all_tables = Extend(@, s_data, "tables")]

RECURSIVE AggregatePages(_, _)
AggregatePages(u, ps) ==
    IF ps = <<>> THEN u ELSE AggregatePages(AggregatePage(u, Head(ps)), Tail(ps))

\* create_document_structure: None (found false) when get_document_details
\* gives None, for an unknown document or a read that fails
create_document_structure(doc, stored_pages, read_ok) ==
    LET doc_details == get_document_details(doc, stored_pages, read_ok)
        unified_doc == [found |-> TRUE,
                        total_pages |-> Len(doc_details.pages),
                        all_sections |-> <<>>,
                        all_measurements |-> <<>>,
                        all_key_fields |-> EmptyDict,
                        all_tables |-> <<>>,
                        pages |-> doc_details.pages,
                        document_summary |-> doc_details.doc.document_summary,
                        document_keywords |-> doc_details.doc.keywords]
    IN  IF ~doc_details.found THEN [found |-> FALSE]
        ELSE AggregatePages(unified_doc, doc_details.pages)

\* count_documents({"doc_id": doc_id, "status": "structured"})
CountStructured(stored_pages) ==
    Cardinality({i \in DOMAIN stored_pages : stored_pages[i].status = "structured"})

\* the dict get_document_status returns (lines 300-307) for the two counts
\* its count_documents requests gave (lines 297-298)
DocumentStatus(total_pages, processed_pages) ==
    [found |-> TRUE, total_pages |-> total_pages, processed_pages |-> processed_pages,
     is_complete |-> total_pages > 0 /\ total_pages = processed_pages]

\* the record of doc in the list of get_all_documents (lines 401-404) for
\* the two counts its count_documents requests gave (lines 396-399)
ListedDocument(doc, total_pages, processed_pages) ==
    LET is_processed == total_pages > 0 /\ total_pages = processed_pages
    IN  [status |-> IF is_processed THEN "structured" ELSE "processing",
         processed_pages |-> processed_pages,
         page_count |-> total_pages,
         document_summary |-> doc.document_summary,
         keywords |-> doc.keywords]

(***************************************************************************)
(* _needs_ocr (src/pdf_processor.py).  texts[i] is what get_text() gives   *)
(* for page i of the PDF; open_fails tells that fitz.open or len(doc)      *)
(* raises, fails_at the page whose inspection raises (0 for none).         *)
(***************************************************************************)
\* number of pages sampled
SampleSize == 3

\* length below which a sampled page asks for OCR
OcrThreshold == 50

\* the loop over the sampled pages with a page that counts from 51 characters on
RECURSIVE SamplePagesFrom51(_, _, _, _)
SamplePagesFrom51(texts, fails_at, page_num, sample_size) ==
    IF page_num > sample_size THEN FALSE
    ELSE IF fails_at = page_num THEN TRUE
    ELSE IF Len(Strip(texts[page_num])) <= OcrThreshold THEN TRUE
    ELSE SamplePagesFrom51(texts, fails_at, page_num + 1, sample_size)

\* the loop of lines 121-128 from page page_num on: True at the first page
\* whose inspection raises (line 134) or whose stripped text is short
RECURSIVE SamplePages(_, _, _, _)
SamplePages(texts, fails_at, page_num, sample_size) ==
    IF page_num > sample_size THEN FALSE
    ELSE IF fails_at = page_num THEN TRUE
    ELSE IF Len(Strip(texts[page_num])) < OcrThreshold THEN TRUE
    ELSE SamplePages(texts, fails_at, page_num + 1, sample_size)

\* _needs_ocr(pdf_path)
needs_ocr(texts, open_fails, fails_at) ==
    IF open_fails THEN TRUE
    ELSE SamplePages(texts, fails_at, 1, Min(SampleSize, Len(texts)))

\* no read of a stored document is in progress.  total_pages is the local
\* of a read that has made its first count_documents request
ViewIdle == [pc |-> "idle", doc |-> EmptyDict, pages |-> <<>>, read_ok |-> TRUE,
             op |-> "", total_pages |-> 0, out |-> <<>>]

\* no call of generate_document_summary is in progress
GdsIdle == [pc |-> "idle", page_summaries |-> <<>>, outcome |-> ReplyNone,
            out |-> [raised |-> FALSE, called |-> FALSE, ret |-> VNull]]

\* no save has been called: nothing of the document is stored.  phase is
\* how far the save has come ("inserting" between insert_one and
\* insert_many), call the save function in progress, del how far
\* delete_document has come ("pages" between delete_many and delete_one).
\* History: del_pc is where the task of the document stood when
\* delete_document removed the document record, load_ok and meta_ok
\* tell whether the collections answered get_raw_text and took the update
\* of _update_document_metadata in the current run, meta_exc is the
\* exception the summarization request of the run ended with
DbIdle == [phase |-> "new", call |-> "", ret |-> "", given |-> 0, calls |-> 0,
           del |-> "none", del_pc |-> "",
           load_ok |-> TRUE, meta_ok |-> TRUE, meta_exc |-> ""]

\* save_pdf_with_pages stored n extracted pages and returned the doc_id
DbSaved(n) == [DbIdle EXCEPT !.phase = "saved", !.ret = "doc_id", !.given = n]

\* no document has been uploaded to the web application: no upload request
\* received, no uuid drawn, no save and no delete in progress, the
\* collections empty, no background thread started, no access made
AppIdle == [uploads |-> 0, uuids |-> 0, failures |-> 0, deletes |-> 0, saves |-> EmptyDict,
            deleting |-> {}, docs |-> EmptyDict, tasks |-> <<>>, accesses |-> {}]

\* no call of _needs_ocr is in progress
OcrIdle == [pc |-> "idle", texts |-> <<>>, open_fails |-> FALSE, fails_at |-> 0, out |-> FALSE]

(***************************************************************************)
(* Calls of structure_text on their own: the arguments and the outcome of  *)
(* the external call are drawn from bounded sets.                          *)
(***************************************************************************)
\* longest text of the truncation cases
MaxTextLen == 92

\* largest max_chars of the truncation cases
MaxChars == 91

ShortTexts == {<<>>, <<0, 0>>, <<1, 2>>, <<0, 1, 0>>}

RaisedClasses ==
    {"AuthenticationError", "RateLimitError", "InternalServerError", "APITimeoutError",
     "APIError", "ValueError"}

ReplyContents ==
    {<<b>> : b \in DOMAIN JsonBodies}
        \cup {<<>>, <<"Sorry, I cannot help">>, <<"good1", "good2">>,
              <<FenceJson, "good1", Fence>>, <<Blank, "partial", Blank>>,
              <<Fence, Blank, "number", Fence>>}

Outcomes == {Raise(e) : e \in RaisedClasses} \cup {ReplyNone} \cup {Reply(c) : c \in ReplyContents}

NoResult == StResult(FALSE, <<>>, FALSE, EmptyDict)

StArgs(has_client, raw_text, max_chars, outcome) ==
    [pc |-> "call", has_client |-> has_client, raw_text |-> raw_text,
     max_chars |-> max_chars, outcome |-> outcome, out |-> NoResult]

StInputs ==
    {StArgs(c, r, DefaultMaxChars, o) : c \in BOOLEAN, r \in ShortTexts, o \in Outcomes}
        \cup {StArgs(TRUE, Text(n), m, Reply(<<"good1">>)) : n \in 0..MaxTextLen, m \in 1..MaxChars}

StIdle == StArgs(FALSE, <<>>, DefaultMaxChars, ReplyNone)

PipelineIdle ==
    /\ db = DbIdle
    /\ app = AppIdle
    /\ page_store = <<>>
    /\ doc_record = EmptyDict
    /\ pc = "idle"
    /\ client = FALSE
    /\ pages = <<>>
    /\ idx = 0
    /\ all_summaries = <<>>
    /\ all_keywords = <<>>
    /\ processed_count = 0
    /\ failed_count = 0
    /\ visit_log = <<>>
    /\ meta_calls = 0
    /\ meta_input = <<>>
    /\ doc_at_start = EmptyDict
    /\ runs = 0

InitST == st \in StInputs /\ view = ViewIdle /\ gds = GdsIdle /\ ocr = OcrIdle /\ PipelineIdle

StCall ==
    /\ st.pc = "call"
    /\ st' = [st EXCEPT !.pc = "ret",
                        !.out = structure_text(st.has_client, st.raw_text, st.max_chars, st.outcome)]
    /\ UNCHANGED <<view, gds, ocr, pipeline_vars>>

NextST == StCall

SpecST == InitST /\ [][NextST]_vars

(***************************************************************************)
(* Reads of a stored document on their own: the document and its pages are *)
(* drawn from bounded sets, the pages in the order they were inserted.     *)
(***************************************************************************)
\* largest number of pages of the stored document
MaxViewPages == 3

\* structured_data values a page may hold
StoredA ==
    PObj([summary |-> VStr("S1"), keywords |-> VList(<<"a">>),
          sections |-> VList(<<"intro">>), measurements |-> VList(<<"5 mm">>),
          key_fields |-> VDict({<<"invoice_date", "2024-01-01">>, <<"vendor", "ACME">>}),
          tables |-> VList(<<"t1">>), processing_status |-> VStr("success")])

StoredB ==
    PObj([summary |-> VStr("S2"), keywords |-> VList(<<"b">>),
          sections |-> VList(<<"intro", "terms">>), measurements |-> VList(<<>>),
          key_fields |-> VDict({<<"invoice_date", "2024-02-01">>}),
          tables |-> VList(<<"t1">>), processing_status |-> VStr("success")])

StoredOdd ==
    PObj([summary |-> VStr("S3"), sections |-> VStr("intro"),
          key_fields |-> VList(<<"invoice_date">>), tables |-> VList(<<"t2">>)])

\* what a page may hold besides its number: as inserted by
\* save_pdf_with_pages, structured with a map, without the field, and with a
\* value that is not a map
StoredContents ==
    {[status |-> "raw", structured_data |-> PObj(EmptyDict)],
     [status |-> "structured", structured_data |-> StoredA],
     [status |-> "structured", structured_data |-> StoredB],
     [status |-> "structured", structured_data |-> StoredOdd],
     [status |-> "raw"],
     [status |-> "structured", structured_data |-> PVal(VList(<<"x">>))]}

\* the page record with the given number and contents
StoredPage(page_num, contents) ==
    [x \in (DOMAIN contents) \cup {"page_num"} |->
        IF x = "page_num" THEN page_num ELSE contents[x]]

\* the stored documents: as inserted, finalized by a run, and unknown
StoredDocs ==
    {NewDocument,
     [status |-> "structured", document_summary |-> VStr("DS"), keywords |-> <<"a", "b">>],
     EmptyDict}

\* the orders in which n pages may lie in the collection
Orders(n) == {f \in [1..n -> 1..n] : \A i, j \in 1..n : f[i] = f[j] => i = j}

\* a read of document d whose n pages lie in the collection in order f with
\* contents c; read_ok is false when the collections are unavailable or a
\* query of the read raises
ViewArgs(d, n, f, c, read_ok) ==
    [pc |-> "call", doc |-> d, pages |-> [i \in 1..n |-> StoredPage(f[i], c[i])],
     read_ok |-> read_ok, op |-> "", total_pages |-> 0, out |-> <<>>]

InitView ==
    /\ st = StIdle
    /\ gds = GdsIdle
    /\ ocr = OcrIdle
    /\ \E d \in StoredDocs, n \in 0..MaxViewPages :
          \E f \in Orders(n), c \in [1..n -> StoredContents], read_ok \in BOOLEAN :
             view = ViewArgs(d, n, f, c, read_ok)
    /\ PipelineIdle

\* a caller reads the aggregate of the document
CallCreateDocumentStructure ==
    /\ view.pc = "call"
    /\ view' = [view EXCEPT !.pc = "ret", !.op = "create_document_structure",
                            !.out = create_document_structure(view.doc, view.pages, view.read_ok)]
    /\ UNCHANGED <<st, gds, ocr, pipeline_vars>>

NextView == CallCreateDocumentStructure

SpecView == InitView /\ [][NextView]_vars

(***************************************************************************)
(* Calls of generate_document_summary on their own: the page summaries are *)
(* the values a run of process_document collects (strings, the empty one   *)
(* included, and the null of a reply without summary).                     *)
(***************************************************************************)
\* largest number of page summaries
MaxSummaries == 3

SummaryValues == {VStr("S1"), VStr("S2"), VStr(""), VNull}

\* outcomes of the external summarization call: replies, a reply without
\* content, failures of the service and a request that meets no timeout of
\* this code and fails in the transport
GdsOutcomes ==
    {Reply(<<Blank, "DS">>), Reply(<<>>), ReplyNone, Raise("APITimeoutError"),
     Raise("RateLimitError"), Raise("ValueError")}

InitGds ==
    /\ st = StIdle
    /\ view = ViewIdle
    /\ ocr = OcrIdle
    /\ \E n \in 0..MaxSummaries :
          \E ps \in [1..n -> SummaryValues], o \in GdsOutcomes :
              gds = [GdsIdle EXCEPT !.pc = "call", !.page_summaries = ps, !.outcome = o]
    /\ PipelineIdle

GdsCall ==
    /\ gds.pc = "call"
    /\ gds' = [gds EXCEPT !.pc = "ret",
                          !.out = generate_document_summary(gds.page_summaries, gds.outcome)]
    /\ UNCHANGED <<st, view, ocr, pipeline_vars>>

NextGds == GdsCall

SpecGds == InitGds /\ [][NextGds]_vars

(***************************************************************************)
(* Calls of _needs_ocr on their own: the texts of the pages lie around     *)
(* the threshold, with and without surrounding whitespace.                 *)
(***************************************************************************)
\* largest number of pages of the PDF
MaxOcrPages == 4

\* an empty page, 49 and 50 characters, 49 characters after a whitespace
\* character and 50 characters before one
OcrTexts == {<<>>, Text(49), Text(50), <<0>> \o Text(49), Text(50) \o <<0>>}

InitOcr ==
    /\ st = StIdle
    /\ view = ViewIdle
    /\ gds = GdsIdle
    /\ \E n \in 0..MaxOcrPages :
          \E ts \in [1..n -> OcrTexts], o \in BOOLEAN, f \in 0..n :
              ocr = [OcrIdle EXCEPT !.pc = "call", !.texts = ts, !.open_fails = o,
                                    !.fails_at = f]
    /\ PipelineIdle

OcrCall ==
    /\ ocr.pc = "call"
    /\ ocr' = [ocr EXCEPT !.pc = "ret",
                          !.out = needs_ocr(ocr.texts, ocr.open_fails, ocr.fails_at)]
    /\ UNCHANGED <<st, view, gds, pipeline_vars>>

NextOcr == OcrCall

SpecOcr == InitOcr /\ [][NextOcr]_vars

(***************************************************************************)
(* Runs of process_document on a stored document                           *)
(***************************************************************************)
\* number of pages of the document
NumPages == 2

\* number of process_document runs on the document
MaxRuns == 2

\* update_page_data calls of one run that the database fails
MaxDbFailures == 1

\* raw_text extracted for page page_num: the characters 1..page_num
PageText(page_num) == Text(page_num)

\* the outcomes of update_one the database may still produce in the run
DbOutcomes ==
    IF Cardinality({j \in DOMAIN visit_log : visit_log[j].persist = "failed"}) < MaxDbFailures
    THEN BOOLEAN ELSE {TRUE}

\* answers of the service to the structuring request of a page during a
\* run: the well-formed reply for that page (summary S1 for page 1, S2 for
\* page 2, ...) and the reply with an empty summary for every page; the
\* replies with a numeric summary, with null summary and keywords and with a
\* null summary alone for the first page; the reply with more keywords than
\* the document keeps for the later pages.  A request that fails is the one
\* that times out (PageTimeout): process_document treats every failure tag
\* alike (lines 272-282)
PipelineOutcomes(page_num) ==
    {Reply(<<"good" \o ToString(page_num)>>), Reply(<<"nosum">>)}
        \cup (IF page_num = 1
              THEN {Reply(<<"numsum">>), Reply(<<"nulls">>), Reply(<<"nullsum">>)}
              ELSE {Reply(<<"many">>)})

\* answers of the service to the summarization request during a run: the
\* synthesis, and a response without content.  A request that fails is the
\* one that times out (SummaryTimeout): generate_document_summary treats
\* every exception alike (lines 363-366)
SummaryOutcomes == {Reply(<<Blank, "DS">>), ReplyNone}

\* a client that bounds only the requests that carry a timeout of their own
TimesOutWhenPassed(request) == request = "page"

\* the client ends a request that gets no answer with APITimeoutError: the
\* structuring request carries timeout=45 (line 128); the summarization
\* request carries none (lines 353-361) and falls under the request timeout
\* the client built by openai.OpenAI(api_key=...) applies by default (line 31)
TimesOut(request) == request \in {"page", "summary"}

\* the state after save_pdf_with_pages has stored a document of NumPages pages
Init ==
    /\ st = StIdle
    /\ view = ViewIdle
    /\ gds = GdsIdle
    /\ ocr = OcrIdle
    /\ db = DbSaved(NumPages)
    /\ app = AppIdle
    /\ page_store = [i \in 1..NumPages |-> NewPage(i, PageText(i))]
    /\ doc_record = NewDocument
    /\ pc = "idle"
    /\ client = FALSE
    /\ pages = <<>>
    /\ idx = 0
    /\ all_summaries = <<>>
    /\ all_keywords = <<>>
    /\ processed_count = 0
    /\ failed_count = 0
    /\ visit_log = <<>>
    /\ meta_calls = 0
    /\ meta_input = <<>>
    /\ doc_at_start = NewDocument
    /\ runs = 0

\* process_document is called with the doc_id save_pdf_with_pages returned:
\* lines 205-238
StartRunUpTo(max_runs) ==
    /\ db.ret = "doc_id"
    /\ pc \in {"idle", "done", "raised"}
    /\ runs < max_runs
    /\ \E c \in BOOLEAN, load_ok \in BOOLEAN :
          \E loaded \in {get_raw_text(page_store, load_ok)} :
              /\ client' = c
              /\ pages' = loaded
              /\ pc' = IF loaded = <<>> THEN "done" ELSE IF c THEN "loop" ELSE "nokey"
              /\ db' = [db EXCEPT !.load_ok = load_ok, !.meta_ok = TRUE, !.meta_exc = ""]
    /\ idx' = 1
    /\ all_summaries' = <<>>
    /\ all_keywords' = <<>>
    /\ processed_count' = 0
    /\ failed_count' = 0
    /\ visit_log' = <<>>
    /\ meta_calls' = 0
    /\ meta_input' = <<>>
    /\ doc_at_start' = doc_record
    /\ runs' = runs + 1
    /\ UNCHANGED <<st, view, gds, ocr, app, page_store, doc_record>>

\* a caller runs process_document on the stored document, up to MaxRuns times
StartRun == StartRunUpTo(MaxRuns)

\* one iteration of the loop of the branch without credential: lines 218-226
MarkPage ==
    /\ pc = "nokey"
    /\ idx <= Len(pages)
    /\ \E db_ok \in DbOutcomes :
          LET upd == MarkIteration(pages[idx], db_ok, page_store)
          IN  /\ page_store' = upd.store
              /\ visit_log' = Append(visit_log,
                    [page_num |-> pages[idx].page_num, skipped |-> FALSE, called |-> FALSE,
                     result |-> get_default_structure, page_summary |-> Sentinel,
                     keywords |-> VList(<<>>), persist |-> IF upd.ret THEN "ok" ELSE "failed"])
    /\ idx' = idx + 1
    /\ pc' = IF idx = Len(pages) THEN "done" ELSE "nokey"
    /\ UNCHANGED <<st, view, gds, ocr, db, app, doc_record, client, pages, all_summaries, all_keywords,
                   processed_count, failed_count, meta_calls, meta_input, doc_at_start, runs>>

\* one iteration of the loop for a page that is skipped: lines 247-260
SkipPage ==
    /\ pc = "loop"
    /\ idx <= Len(pages)
    /\ ShouldSkip(pages[idx])
    /\ \E it \in {SkipIteration(pages[idx], page_store, all_summaries, all_keywords,
                                 processed_count, failed_count)} :
          /\ all_summaries' = it.summaries
          /\ all_keywords' = it.keywords_acc
          /\ processed_count' = it.processed
          /\ pc' = IF it.raise # "" THEN "raised" ELSE "loop"
          /\ idx' = IF it.raise # "" THEN idx ELSE idx + 1
          /\ visit_log' = Append(visit_log, it.entry)
    /\ UNCHANGED <<st, view, gds, ocr, db, app, page_store, doc_record, client, pages, failed_count,
                   meta_calls, meta_input, doc_at_start, runs>>

\* structure_text gets past the returns of lines 67-81 for the text
ReachesCall(raw_text) == ~(raw_text = <<>> \/ Len(Strip(raw_text)) = 0)

\* the iteration for a page that is (re)processed arrives at the request of
\* lines 120-129 and waits for its outcome
SendPageRequest ==
    /\ pc = "loop"
    /\ idx <= Len(pages)
    /\ ~ShouldSkip(pages[idx])
    /\ ReachesCall(pages[idx].raw_text)
    /\ pc' = "page_call"
    /\ UNCHANGED <<st, view, gds, ocr, db, app, page_store, doc_record, client, pages, idx,
                   all_summaries, all_keywords, processed_count, failed_count, visit_log,
                   meta_calls, meta_input, doc_at_start, runs>>

\* lines 262-308 of the iteration for the outcome of the external call
CompleteIteration(outcome) ==
    /\ \E db_ok \in DbOutcomes :
          \E it \in {Iteration(pages[idx], outcome, db_ok, page_store, all_summaries,
                               all_keywords, processed_count, failed_count)} :
              /\ page_store' = it.store
              /\ all_summaries' = it.summaries
              /\ all_keywords' = it.keywords_acc
              /\ processed_count' = it.processed
              /\ failed_count' = it.failed
              /\ visit_log' = Append(visit_log, it.entry)
              /\ pc' = IF it.raise # "" THEN "raised" ELSE "loop"
              /\ idx' = IF it.raise # "" THEN idx ELSE idx + 1
    /\ UNCHANGED <<st, view, gds, ocr, db, app, doc_record, client, pages, meta_calls, meta_input,
                   doc_at_start, runs>>

\* one iteration of the loop for a page that is (re)processed: the service
\* answers or fails the request, or structure_text returned without one
ProcessPage ==
    /\ \/ pc = "page_call"
       \/ /\ pc = "loop"
          /\ idx <= Len(pages)
          /\ ~ShouldSkip(pages[idx])
          /\ ~ReachesCall(pages[idx].raw_text)
    /\ \E outcome \in PipelineOutcomes(pages[idx].page_num) : CompleteIteration(outcome)

\* the request of the iteration is not answered within timeout=45 (line
\* 128): the client raises APITimeoutError
PageTimeout ==
    /\ pc = "page_call"
    /\ TimesOut("page")
    /\ CompleteIteration(Raise("APITimeoutError"))

\* the end of the loop with two or more summaries collected: the run arrives
\* at the request of lines 353-361 and waits for its outcome
SendSummaryRequest ==
    /\ pc = "loop"
    /\ idx > Len(pages)
    /\ Len(all_summaries) >= 2
    /\ pc' = "summary_call"
    /\ UNCHANGED <<st, view, gds, ocr, db, app, page_store, doc_record, client, pages, idx,
                   all_summaries, all_keywords, processed_count, failed_count, visit_log,
                   meta_calls, meta_input, doc_at_start, runs>>

\* lines 310-320 for an outcome of the summarization request among outcomes
CompleteRun(outcomes) ==
    /\ IF all_summaries # <<>>
       THEN /\ \E outcome \in outcomes, db_ok \in BOOLEAN :
                  /\ doc_record' = update_document_metadata(doc_record, all_summaries,
                                                            all_keywords, outcome, db_ok)
                  /\ db' = [db EXCEPT !.meta_ok = db_ok, !.meta_exc = outcome.exc]
            /\ meta_calls' = meta_calls + 1
            /\ meta_input' = all_summaries
       ELSE UNCHANGED <<db, doc_record, meta_calls, meta_input>>
    /\ pc' = "done"
    /\ UNCHANGED <<st, view, gds, ocr, app, page_store, client, pages, idx, all_summaries,
                   all_keywords, processed_count, failed_count, visit_log, doc_at_start, runs>>

\* the end of the loop, lines 310-320: the service answers the summary
\* request, or fewer than two summaries were collected
FinishRun ==
    /\ \/ pc = "summary_call"
       \/ pc = "loop" /\ idx > Len(pages) /\ Len(all_summaries) < 2
    /\ CompleteRun(SummaryOutcomes)

\* the summary request is not answered within the request timeout of the
\* client: create raises APITimeoutError, the except clause of lines 363-366
\* returns the fallback and the run goes on to its end
SummaryTimeout ==
    /\ pc = "summary_call"
    /\ TimesOut("summary")
    /\ CompleteRun({Raise("APITimeoutError")})

Next ==
    \/ StartRun
    \/ MarkPage
    \/ SkipPage
    \/ SendPageRequest
    \/ ProcessPage
    \/ PageTimeout
    \/ SendSummaryRequest
    \/ FinishRun
    \/ SummaryTimeout

Spec == Init /\ [][Next]_vars

\* the steps of a run that wait for nothing outside the task
ProcessLocal == pc = "loop" /\ ProcessPage

FinishLocal == pc = "loop" /\ FinishRun

\* the task keeps running: each step of its own code is eventually taken,
\* and so is the timeout of a request the client bounds; the service owes no
\* answer, and the caller no further run
SpecLive ==
    /\ Spec
    /\ WF_vars(MarkPage)
    /\ WF_vars(SkipPage)
    /\ WF_vars(SendPageRequest)
    /\ WF_vars(ProcessLocal)
    /\ WF_vars(PageTimeout)
    /\ WF_vars(SendSummaryRequest)
    /\ WF_vars(FinishLocal)
    /\ WF_vars(SummaryTimeout)

(***************************************************************************)
(* The life of a document in the collections: save_pdf_with_pages stores   *)
(* it, process_document runs on it, and callers of MongoDBManager update   *)
(* its pages, read its status and delete it while the task runs.           *)
(***************************************************************************)
\* largest number of pages extract_text_from_pdf gives for the document
MaxStorePages == 2

\* number of update_page_data and update_structured_text calls from outside
\* the task
MaxDirectCalls == 1

\* pages_data of extract_text_from_pdf for a PDF of n pages
PagesData(n) == [i \in 1..n |-> [page_num |-> i, raw_text |-> PageText(i)]]

SaveFaults == {"none", "not_connected", "insert_one", "insert_many"}

\* classes of the exceptions insert_one and insert_many raise: a write
\* error of the server, and a lost connection, which is no OperationFailure
SaveExceptions == {"OperationFailure", "ConnectionFailure"}

\* the caller of function fn that stores the extracted pages runs the call
\* up to insert_one
BeginSave(fn) ==
    /\ db.phase = "new"
    /\ \E n \in 0..MaxStorePages, fault \in SaveFaults \ {"insert_many"},
          exc \in SaveExceptions :
          \E first \in {insert_document(fault, fn = "save_pdf_pages"
                                                    /\ exc # "OperationFailure")} :
              /\ doc_record' = first.doc
              /\ db' = [db EXCEPT !.phase = IF first.ret = "" THEN "inserting" ELSE "failed",
                                  !.call = IF first.ret = "" THEN fn ELSE "",
                                  !.ret = first.ret, !.given = n]
    /\ UNCHANGED <<st, view, gds, ocr, app, page_store, pc, client, pages, idx, all_summaries,
                   all_keywords, processed_count, failed_count, visit_log, meta_calls,
                   meta_input, doc_at_start, runs>>

\* upload_file or another caller stores the extracted pages: lines 101-149
CallSavePdfWithPages == BeginSave("save_pdf_with_pages")

\* a caller stores the extracted pages with the legacy save: lines 182-212
CallSavePdfPages == BeginSave("save_pdf_pages")

\* the save in progress goes on from the page records to its return: lines
\* 151-180 of save_pdf_with_pages, 211-238 of save_pdf_pages.  insert_many
\* writes into the collection as it is then, whatever other callers did to
\* the document since insert_one
InsertPages ==
    /\ db.phase = "inserting"
    /\ \E fault \in {"none", "insert_many"}, exc \in SaveExceptions,
          inserted \in 0..Max(0, db.given - 1) :
          \E second \in {insert_pages(PagesData(db.given), fault, inserted,
                                       db.call = "save_pdf_pages"
                                          /\ exc # "OperationFailure")} :
              /\ page_store' = second.store
              /\ db' = [db EXCEPT !.phase = IF second.ret = "doc_id" THEN "saved" ELSE "failed",
                                  !.call = "", !.ret = second.ret]
    /\ UNCHANGED <<st, view, gds, ocr, app, doc_record, pc, client, pages, idx, all_summaries,
                   all_keywords, processed_count, failed_count, visit_log, meta_calls,
                   meta_input, doc_at_start, runs>>

\* a structured_data without processing_status, as a caller may pass it
UntaggedData == [summary |-> VStr("S9")]

\* the arguments of update_page_data a caller passes besides doc_id and
\* page_num; each of them may be left at its default None
DirectArgs ==
    {[structured_data |-> <<>>, page_summary |-> VStr("S9"), keywords |-> VNull],
     [structured_data |-> <<UntaggedData>>, page_summary |-> VNull,
      keywords |-> VList(<<"k9">>)]}

\* a caller updates a page under the doc_id with update_page_data, which
\* consults the pages collection only: whatever the save and
\* delete_document have done by then, the call changes the page it matches
\* and nothing when it matches none
CallUpdatePageData ==
    /\ db.calls < MaxDirectCalls
    /\ \E page_num \in 1..MaxStorePages, a \in DirectArgs, db_ok \in BOOLEAN :
          page_store' = update_page_data(page_store, page_num, a.structured_data,
                                         a.page_summary, a.keywords, db_ok).store
    /\ db' = [db EXCEPT !.calls = @ + 1]
    /\ UNCHANGED <<st, view, gds, ocr, app, doc_record, pc, client, pages, idx, all_summaries,
                   all_keywords, processed_count, failed_count, visit_log, meta_calls,
                   meta_input, doc_at_start, runs>>

\* update_structured_text(doc_id, page_num, structured_data): line 376
update_structured_text(store, page_num, structured_data, db_ok) ==
    update_page_data(store, page_num, <<structured_data>>, VNull, VNull, db_ok)

\* a caller updates a page of the document with the legacy method
CallUpdateStructuredText ==
    /\ db.calls < MaxDirectCalls
    /\ \E page_num \in 1..MaxStorePages, d \in {DefaultTagged("success")}, db_ok \in BOOLEAN :
          page_store' = update_structured_text(page_store, page_num, d, db_ok).store
    /\ db' = [db EXCEPT !.calls = @ + 1]
    /\ UNCHANGED <<st, view, gds, ocr, app, doc_record, pc, client, pages, idx, all_summaries,
                   all_keywords, processed_count, failed_count, visit_log, meta_calls,
                   meta_input, doc_at_start, runs>>

\* the answer of a read that fails or finds no document: None of
\* get_document_status (lines 288, 294, 310), [] of get_all_documents
\* (lines 384, 413, and the list of an empty collection)
NoAnswer(op) == IF op = "get_document_status" THEN [found |-> FALSE] ELSE <<>>

\* the read op that ends without its answer
ReadFailed(op) == [ViewIdle EXCEPT !.pc = "ret", !.op = op, !.read_ok = FALSE,
                                   !.out = NoAnswer(op)]

\* a caller starts get_document_status(doc_id) or get_all_documents(): the
\* test of the collections and the first request, find_one (line 292) or
\* find (line 388), which gives the document record as it is then; when
\* the record is not in the collection the read ends there, with None
\* (line 294) or the empty list
CallReadStored ==
    /\ view.pc = "idle"
    /\ db.calls < MaxDirectCalls
    /\ \E op \in {"get_document_status", "get_all_documents"}, read_ok \in BOOLEAN :
          /\ view' = IF ~read_ok THEN ReadFailed(op)
                     ELSE IF doc_record = EmptyDict
                     THEN [ViewIdle EXCEPT !.pc = "ret", !.op = op, !.out = NoAnswer(op)]
                     ELSE [ViewIdle EXCEPT !.pc = "found", !.op = op, !.doc = doc_record]
    /\ db' = [db EXCEPT !.calls = @ + 1]
    /\ UNCHANGED <<st, gds, ocr, app, run_vars>>

\* the read goes on with its second request, the count of the pages stored
\* under the doc_id then (line 297, line 396)
ReadCountPages ==
    /\ view.pc = "found"
    /\ \E read_ok \in BOOLEAN :
          view' = IF ~read_ok THEN ReadFailed(view.op)
                  ELSE [view EXCEPT !.pc = "counted", !.total_pages = Len(page_store)]
    /\ UNCHANGED <<st, gds, ocr, db, app, run_vars>>

\* the read goes on with its third request, the count of the structured
\* pages stored then (line 298, lines 397-399), and computes its answer
\* from the record and the two counts.  History: view.pages is the pages
\* in the collection at this request
ReadCountStructured ==
    /\ view.pc = "counted"
    /\ \E read_ok \in BOOLEAN, processed_pages \in {CountStructured(page_store)} :
          view' = IF ~read_ok THEN ReadFailed(view.op)
                  ELSE [view EXCEPT
                          !.pc = "ret",
                          !.pages = page_store,
                          !.out = IF view.op = "get_document_status"
                                  THEN DocumentStatus(view.total_pages, processed_pages)
                                  ELSE <<ListedDocument(view.doc, view.total_pages,
                                                        processed_pages)>>]
    /\ UNCHANGED <<st, gds, ocr, db, app, run_vars>>

\* the caller of the read has its answer and its request ends
ReadReturns ==
    /\ view.pc = "ret"
    /\ view' = ViewIdle
    /\ UNCHANGED <<st, gds, ocr, db, app, run_vars>>

\* delete_document up to delete_many: the document is found (line 516) and
\* the pages stored by then are removed (line 526).  A failure after this
\* step leaves the collections as the step left them; a call that finds no
\* document record returns False and changes nothing (lines 517-519)
DeletePages ==
    /\ db.del = "none"
    /\ doc_record # EmptyDict
    /\ page_store' = <<>>
    /\ db' = [db EXCEPT !.del = "pages"]
    /\ UNCHANGED <<st, view, gds, ocr, app, doc_record, pc, client, pages, idx, all_summaries,
                   all_keywords, processed_count, failed_count, visit_log, meta_calls,
                   meta_input, doc_at_start, runs>>

\* delete_document from delete_one on: the document record is removed
\* (line 530)
DeleteRecord ==
    /\ db.del = "pages"
    /\ doc_record' = EmptyDict
    /\ db' = [db EXCEPT !.del = "done", !.del_pc = pc]
    /\ UNCHANGED <<st, view, gds, ocr, app, page_store, pc, client, pages, idx, all_summaries,
                   all_keywords, processed_count, failed_count, visit_log, meta_calls,
                   meta_input, doc_at_start, runs>>

\* upload_file starts the background task of the document once, after
\* save_pdf_with_pages returned its doc_id (src/app.py, lines 110-119)
StartTask == StartRunUpTo(1)

InitStore ==
    /\ st = StIdle
    /\ view = ViewIdle
    /\ gds = GdsIdle
    /\ ocr = OcrIdle
    /\ PipelineIdle

NextStore ==
    \/ CallSavePdfWithPages
    \/ CallSavePdfPages
    \/ InsertPages
    \/ CallUpdatePageData
    \/ CallUpdateStructuredText
    \/ CallReadStored
    \/ ReadCountPages
    \/ ReadCountStructured
    \/ ReadReturns
    \/ DeletePages
    \/ DeleteRecord
    \/ StartTask
    \/ MarkPage
    \/ SkipPage
    \/ SendPageRequest
    \/ ProcessPage
    \/ PageTimeout
    \/ SendSummaryRequest
    \/ FinishRun
    \/ SummaryTimeout

SpecStore == InitStore /\ [][NextStore]_vars

(***************************************************************************)
(* The web application (src/app.py): upload requests store documents under *)
(* the doc_id save_pdf_with_pages generates and start one background       *)
(* thread each; the requests and the threads interleave, a save between    *)
(* its two inserts and a delete between its two deletes included.          *)
(* app.docs maps a doc_id to the document record (EmptyDict when there is  *)
(* none) and the page records stored under it, app.saves the doc_id of a   *)
(* save in progress to the number of pages it is storing, app.deleting is  *)
(* the doc_ids whose pages a delete request has removed but not yet the    *)
(* record, app.tasks lists the threads started with the locals of          *)
(* process_document, app.accesses the page and document records each       *)
(* thread has read or asked to write.  The AIProcessor of the application  *)
(* is created once (line 55): client tells whether it has a credential.    *)
(***************************************************************************)
\* number of upload requests
MaxUploads == 2

\* largest number of pages of an uploaded PDF
MaxAppPages == 2

\* number of calls of the database and of the service that fail while the
\* application runs
MaxAppFailures == 1

\* number of delete requests
MaxAppDeletes == 1

\* whether the database or the service may still fail a call
MayFail == app.failures < MaxAppFailures

\* the outcomes of a call of the database that may still happen
AppDbOutcomes == IF MayFail THEN BOOLEAN ELSE {TRUE}

\* the failures counted after a step in which failed calls failed
Failures(failed) == app.failures + (IF failed THEN 1 ELSE 0)

\* a generator that gives the same value at every call
uuid4_repeated(drawn) == 1

\* str(uuid.uuid4()) of line 119 when drawn values were generated before: a
\* value none of the earlier calls gave
uuid4(drawn) == drawn + 1

\* the document record and the pages stored under doc_id
DocUnder(doc_id) == IF doc_id \in DOMAIN app.docs THEN app.docs[doc_id].doc ELSE EmptyDict

StoredUnder(doc_id) == IF doc_id \in DOMAIN app.docs THEN app.docs[doc_id].store ELSE <<>>

\* the collections with doc and store under doc_id
WithRecords(docs, doc_id, doc, store) ==
    IF doc = EmptyDict /\ store = <<>>
    THEN [d \in (DOMAIN docs) \ {doc_id} |-> docs[d]]
    ELSE SetKey(docs, doc_id, [doc |-> doc, store |-> store])

\* upload_file up to insert_one, src/app.py lines 76-110 and
\* src/database.py lines 115-149: the pages are extracted (an empty
\* extraction ends the request before anything is stored) and
\* save_pdf_with_pages draws the doc_id and inserts the document record
UploadFile ==
    /\ app.uploads < MaxUploads
    /\ \E n \in 1..MaxAppPages,
          fault \in IF MayFail THEN SaveFaults \ {"insert_many"} ELSE {"none"} :
          \E doc_id \in {uuid4(app.uuids)}, first \in {insert_document(fault, FALSE)} :
              app' = [app EXCEPT
                        !.uploads = @ + 1,
                        !.failures = Failures(fault # "none"),
                        !.uuids = IF fault = "not_connected" THEN @ ELSE @ + 1,
                        !.docs = WithRecords(@, doc_id, first.doc, <<>>),
                        !.saves = IF first.ret = "" THEN SetKey(@, doc_id, n) ELSE @]
    /\ UNCHANGED <<st, view, gds, ocr, db, run_vars>>

\* the locals of process_document in a thread that has not entered it or
\* has left it
TaskLocals(doc_id, at) ==
    [doc_id |-> doc_id, pc |-> at, idx |-> 0, pages |-> <<>>, all_summaries |-> <<>>,
     all_keywords |-> <<>>, processed_count |-> 0, failed_count |-> 0]

\* upload_file from insert_many on, src/database.py lines 151-180 and
\* src/app.py lines 110-119: the page records are inserted into the
\* collection as it is then, and when save_pdf_with_pages returned the
\* doc_id the thread of process_document_async(doc_id) is started
UploadInsertPages(doc_id) ==
    /\ doc_id \in DOMAIN app.saves
    /\ \E fault \in IF MayFail THEN {"none", "insert_many"} ELSE {"none"},
          inserted \in 0..(app.saves[doc_id] - 1) :
          \E second \in {insert_pages(PagesData(app.saves[doc_id]), fault, inserted, FALSE)} :
              app' = [app EXCEPT
                        !.failures = Failures(fault # "none"),
                        !.saves = [d \in (DOMAIN @) \ {doc_id} |-> @[d]],
                        !.docs = WithRecords(@, doc_id, DocUnder(doc_id), second.store),
                        !.tasks = IF second.ret = "doc_id"
                                  THEN Append(@, TaskLocals(doc_id, "start"))
                                  ELSE @]
    /\ UNCHANGED <<st, view, gds, ocr, db, run_vars>>

\* the records a thread touches, each under the doc_id the thread passes
Access(i, doc_id, page_nums) == {[task |-> i, doc_id |-> doc_id, page_num |-> p] : p \in page_nums}

\* thread i enters process_document(db, doc_id) and loads the pages of its
\* document with get_raw_text(doc_id): src/ai_processor.py lines 205-238
TaskLoad(i) ==
    /\ app.tasks[i].pc = "start"
    /\ \E t \in {app.tasks[i]}, load_ok \in AppDbOutcomes :
          \E loaded \in {get_raw_text(StoredUnder(t.doc_id), load_ok)} :
              app' = [app EXCEPT
                        !.failures = Failures(~load_ok),
                        !.tasks[i] = IF loaded = <<>> THEN TaskLocals(t.doc_id, "ended")
                                     ELSE [t EXCEPT !.pc = IF client THEN "loop" ELSE "nokey",
                                                    !.idx = 1, !.pages = loaded],
                        !.accesses = @ \cup Access(i, t.doc_id, DOMAIN loaded)]
    /\ UNCHANGED <<st, view, gds, ocr, db, run_vars>>

\* answers of the service to the structuring request of a page in a thread:
\* the well-formed reply for the page and, while calls may fail, a request
\* that times out
AppOutcomes(page_num) ==
    {Reply(<<"good" \o ToString(page_num)>>)}
        \cup (IF MayFail THEN {Raise("APITimeoutError")} ELSE {})

\* answers of the service to the summarization request of a thread
AppSummaryOutcomes ==
    {Reply(<<Blank, "DS">>)} \cup (IF MayFail THEN {Raise("APITimeoutError")} ELSE {})

\* one iteration of the loop of thread t over page: lines 218-226 without
\* credential, lines 240-308 with one
TaskIteration(t, page, outcome, db_ok, store) ==
    IF t.pc = "nokey"
    THEN LET upd == MarkIteration(page, db_ok, store)
         IN  [raise |-> "", store |-> upd.store, summaries |-> t.all_summaries,
              keywords_acc |-> t.all_keywords, processed |-> t.processed_count,
              failed |-> t.failed_count,
              entry |-> [page_num |-> page.page_num, skipped |-> FALSE, called |-> FALSE,
                         result |-> get_default_structure, page_summary |-> Sentinel,
                         keywords |-> VList(<<>>),
                         persist |-> IF upd.ret THEN "ok" ELSE "failed"]]
    ELSE IF ShouldSkip(page)
    THEN SkipIteration(page, store, t.all_summaries, t.all_keywords, t.processed_count,
                       t.failed_count)
    ELSE Iteration(page, outcome, db_ok, store, t.all_summaries, t.all_keywords,
                   t.processed_count, t.failed_count)

\* thread i runs the iteration of its next page; an exception of the
\* iteration ends the thread in process_document_async (src/app.py, lines
\* 69-70)
TaskPage(i) ==
    /\ app.tasks[i].pc \in {"nokey", "loop"}
    /\ app.tasks[i].idx <= Len(app.tasks[i].pages)
    /\ \E t \in {app.tasks[i]}, db_ok \in AppDbOutcomes :
          \E page \in {t.pages[t.idx]}, store \in {StoredUnder(t.doc_id)} :
              \E outcome \in IF db_ok THEN AppOutcomes(page.page_num)
                              ELSE {Reply(<<"good" \o ToString(page.page_num)>>)} :
                  \E it \in {TaskIteration(t, page, outcome, db_ok, store)} :
                      app' = [app EXCEPT
                                !.failures = Failures(it.entry.persist = "failed"
                                                \/ (it.entry.called
                                                    /\ outcome.kind # "reply")),
                                !.tasks[i] =
                                    IF it.raise # "" THEN TaskLocals(t.doc_id, "ended")
                                    ELSE [t EXCEPT !.idx = @ + 1,
                                                   !.all_summaries = it.summaries,
                                                   !.all_keywords = it.keywords_acc,
                                                   !.processed_count = it.processed,
                                                   !.failed_count = it.failed],
                                !.docs = WithRecords(@, t.doc_id, DocUnder(t.doc_id), it.store),
                                !.accesses = IF it.entry.persist = "none" THEN @
                                             ELSE @ \cup Access(i, t.doc_id, {page.page_num})]
    /\ UNCHANGED <<st, view, gds, ocr, db, run_vars>>

\* thread i leaves the loop and ends: the branch without credential returns
\* (line 226); the other calls _update_document_metadata(db, doc_id, ...)
\* when it collected a summary (lines 310-313).  page_num 0 stands for the
\* document record
TaskEnd(i) ==
    /\ app.tasks[i].pc \in {"nokey", "loop"}
    /\ app.tasks[i].idx > Len(app.tasks[i].pages)
    /\ \E t \in {app.tasks[i]}, db_ok \in AppDbOutcomes :
          \E outcome \in IF db_ok THEN AppSummaryOutcomes ELSE {Reply(<<Blank, "DS">>)} :
              \E calls \in {t.pc = "loop" /\ t.all_summaries # <<>>} :
                  app' = [app EXCEPT
                            !.failures = Failures(calls /\ (~db_ok \/ (outcome.kind # "reply"
                                                       /\ Len(t.all_summaries) >= 2))),
                            !.tasks[i] = TaskLocals(t.doc_id, "ended"),
                            !.docs = IF calls
                                     THEN WithRecords(@, t.doc_id,
                                              update_document_metadata(
                                                  DocUnder(t.doc_id), t.all_summaries,
                                                  t.all_keywords, outcome, db_ok),
                                              StoredUnder(t.doc_id))
                                     ELSE @,
                            !.accesses = IF calls THEN @ \cup Access(i, t.doc_id, {0}) ELSE @]
    /\ UNCHANGED <<st, view, gds, ocr, db, run_vars>>

\* DELETE /document/<doc_id> up to delete_many, src/app.py lines 176-188 and
\* src/database.py lines 511-526: delete_document finds the document record
\* and removes the pages stored under doc_id by then
AppDeleteDocument ==
    /\ app.deletes < MaxAppDeletes
    /\ \E doc_id \in (DOMAIN app.docs) \ app.deleting :
          /\ DocUnder(doc_id) # EmptyDict
          /\ app' = [app EXCEPT
                       !.deletes = @ + 1,
                       !.docs = WithRecords(@, doc_id, DocUnder(doc_id), <<>>),
                       !.deleting = @ \cup {doc_id}]
    /\ UNCHANGED <<st, view, gds, ocr, db, run_vars>>

\* the delete request goes on with delete_one (src/database.py, line 530):
\* the document record is removed
AppDeleteRecord ==
    /\ \E doc_id \in app.deleting :
          app' = [app EXCEPT
                    !.docs = WithRecords(@, doc_id, EmptyDict, StoredUnder(doc_id)),
                    !.deleting = @ \ {doc_id}]
    /\ UNCHANGED <<st, view, gds, ocr, db, run_vars>>

\* the application has started: its AIProcessor has a credential or not
InitApp ==
    /\ st = StIdle
    /\ view = ViewIdle
    /\ gds = GdsIdle
    /\ ocr = OcrIdle
    /\ db = DbIdle
    /\ app = AppIdle
    /\ page_store = <<>>
    /\ doc_record = EmptyDict
    /\ pc = "idle"
    /\ client \in BOOLEAN
    /\ pages = <<>>
    /\ idx = 0
    /\ all_summaries = <<>>
    /\ all_keywords = <<>>
    /\ processed_count = 0
    /\ failed_count = 0
    /\ visit_log = <<>>
    /\ meta_calls = 0
    /\ meta_input = <<>>
    /\ doc_at_start = EmptyDict
    /\ runs = 0

NextApp ==
    \/ UploadFile
    \/ \E doc_id \in DOMAIN app.saves : UploadInsertPages(doc_id)
    \/ \E i \in DOMAIN app.tasks : TaskLoad(i)
    \/ \E i \in DOMAIN app.tasks : TaskPage(i)
    \/ \E i \in DOMAIN app.tasks : TaskEnd(i)
    \/ AppDeleteDocument
    \/ AppDeleteRecord

SpecApp == InitApp /\ [][NextApp]_vars

(***************************************************************************)
(* Properties of structure_text                                            *)
(***************************************************************************)
StReturned == st.pc = "ret"

Tags ==
    {"success", "partial_success", "json_error", "auth_error", "rate_limit_error",
     "api_error", "unknown_error", "no_api_key", "empty_text"}

\* C1: structure_text never raises to its caller; whatever the text and the
\* outcome of the external call, it returns a structure that carries a
\* processing_status tag.
C1_NeverRaises ==
    StReturned =>
        /\ ~st.out.raised
        /\ "processing_status" \in DOMAIN st.out.result
        /\ st.out.result["processing_status"].t = "str"
        /\ st.out.result["processing_status"].s \in Tags

\* a reply that is JSON but not an object has been absorbed into a tagged default
C1_Witness ==
    /\ StReturned
    /\ st.out.called
    /\ st.outcome = Reply(<<"keylist">>)
    /\ st.out.result = DefaultTagged("unknown_error")

HasSchema(r) ==
    /\ DOMAIN r = RequiredKeys \cup {"processing_status"}
    /\ r["summary"].t = "str"
    /\ r["keywords"].t = "list"
    /\ r["sections"].t = "list"
    /\ r["measurements"].t = "list"
    /\ r["tables"].t = "list"
    /\ r["key_fields"].t = "dict"

\* C2: for all inputs and all outcomes of the external call the returned
\* object has exactly the six required keys plus the tag, summary a string,
\* keywords, sections, measurements and tables lists and key_fields a map.
C2_SchemaTotal == StReturned => HasSchema(st.out.result)

\* the tag the claim gives each class of failure of the external call
ClaimedTag(exc) ==
    CASE exc = "AuthenticationError" -> "auth_error"
      [] exc = "RateLimitError" -> "rate_limit_error"
      [] exc \in {"InternalServerError", "APITimeoutError", "APIError"} -> "api_error"
      [] OTHER -> "unknown_error"

\* C6: a failure of the external call gives the default empty structure with
\* only the tag changed: auth_error for an authentication failure,
\* rate_limit_error for a rate or quota failure, api_error for any other
\* service failure (a timeout included), unknown_error for any other exception.
C6_FailureTags ==
    (StReturned /\ st.out.called /\ st.outcome.kind = "raise") =>
        /\ ~st.out.raised
        /\ st.out.result = SetKey(get_default_structure, "processing_status",
                                  VStr(ClaimedTag(st.outcome.exc)))

\* an authentication failure, which is also a service failure, has been tagged auth_error
C6_Witness ==
    /\ StReturned
    /\ st.out.called
    /\ st.outcome = Raise("AuthenticationError")
    /\ st.out.result["processing_status"] = VStr("auth_error")
    /\ st.out.result["summary"] = VStr("")

\* floor(0.7 * m) and floor(0.3 * m) of the claim, in exact arithmetic
Floor07(m) == (7 * m) \div 10

Floor03(m) == (3 * m) \div 10

\* the last n characters of s
LastChars(s, n) == SubSeq(s, Len(s) - n + 1, Len(s))

\* C10: when len(raw_text) > max_chars the text sent is the first
\* floor(0.7*max_chars) characters, the elision marker, then the last
\* floor(0.3*max_chars) characters of the original, so its length is
\* floor(0.7*max_chars) + floor(0.3*max_chars) + len(marker) and never
\* exceeds max_chars + len(marker).
C10_Truncation ==
    (StReturned /\ st.out.called /\ Len(st.raw_text) > st.max_chars) =>
        /\ st.out.sent = SubSeq(st.raw_text, 1, Floor07(st.max_chars)) \o ElisionMarker
                            \o LastChars(st.raw_text, Floor03(st.max_chars))
        /\ Len(st.out.sent) = Floor07(st.max_chars) + Floor03(st.max_chars) + MarkerLen
        /\ Len(st.out.sent) <= st.max_chars + MarkerLen

\* the text has no character or only whitespace characters
IsBlankText(s) == \A i \in DOMAIN s : s[i] = 0

\* the empty structure with the given tag
EmptyStructure(tag) ==
    [summary |-> VStr(""), keywords |-> VList(<<>>), sections |-> VList(<<>>),
     measurements |-> VList(<<>>), key_fields |-> VDict({}), tables |-> VList(<<>>),
     processing_status |-> VStr(tag)]

\* C11: structure_text makes no external call when no client is configured
\* (the result is the default structure tagged no_api_key, for any text, the
\* empty text included) or when the text is empty or whitespace-only (the
\* result is the default structure tagged empty_text, with empty summary and
\* empty list and map fields).
C11_ShortCircuit ==
    StReturned =>
        /\ ~st.has_client =>
              ~st.out.called /\ ~st.out.raised /\ st.out.result = EmptyStructure("no_api_key")
        /\ (st.has_client /\ IsBlankText(st.raw_text)) =>
              ~st.out.called /\ ~st.out.raised /\ st.out.result = EmptyStructure("empty_text")

\* a whitespace-only text was given to a processor with a client while the
\* service would have answered
C11_Witness ==
    /\ StReturned
    /\ st.has_client
    /\ st.raw_text = <<0, 0>>
    /\ st.outcome = Reply(<<"good1">>)
    /\ ~st.out.called
    /\ st.out.result["processing_status"] = VStr("empty_text")

(***************************************************************************)
(* Properties of process_document                                          *)
(***************************************************************************)
RunEnded == pc \in {"done", "raised"}

\* the entries of the log of the current run for page p
Visits(p) == {j \in DOMAIN visit_log : visit_log[j].page_num = p}

NonEmptySummary(v) == v.t = "str" /\ v.s # ""

\* C3: process_document never raises and attempts every page of the
\* document in ascending page_num order, whatever structure_text returned
\* for a page and whatever update_page_data returned.
C3_EveryPageAttempted ==
    /\ pc # "raised"
    /\ (client /\ pc = "done") =>
          /\ Len(visit_log) = Len(pages)
          /\ \A j \in DOMAIN visit_log : visit_log[j].page_num = pages[j].page_num

\* C4: in a run with a credential a page loaded with status structured
\* and a non-empty page_summary is never passed to structure_text and no
\* external structuring call is made for it, in the first run and in every
\* later one.
C4_SkipRule ==
    client =>
        \A i \in DOMAIN pages :
            (pages[i].status = "structured" /\ NonEmptySummary(pages[i].page_summary)) =>
                \A j \in Visits(pages[i].page_num) :
                    visit_log[j].skipped /\ ~visit_log[j].called

\* a second run with credential has skipped a page the first run structured
C4_Witness ==
    /\ client
    /\ pc = "done"
    /\ runs = 2
    /\ \E j \in DOMAIN visit_log :
          /\ visit_log[j].skipped
          /\ pages[j].status = "structured"
          /\ pages[j].page_summary = VStr("S1")
          /\ page_store[j].structured_data["processing_status"] = VStr("success")

\* C5: in a run with a credential a page loaded with status structured
\* and page_summary "" is passed to structure_text again and its result is
\* handed to update_page_data again.
C5_RetryRule ==
    (client /\ RunEnded) =>
        \A i \in DOMAIN pages :
            (pages[i].status = "structured" /\ pages[i].page_summary = VStr("")) =>
                \E j \in Visits(pages[i].page_num) :
                    ~visit_log[j].skipped /\ visit_log[j].persist \in {"ok", "failed"}

\* C7: every structuring attempt of process_document is persisted by one
\* update that writes status, structured_data, page_summary and keywords
\* together: the page record holds all four of the attempt or none of them.
C7_AtomicPersist ==
    client =>
        \A j \in DOMAIN visit_log :
            LET e == visit_log[j]
                rec == page_store[e.page_num]
            IN  ~e.skipped =>
                    IF e.persist = "ok"
                    THEN /\ rec.status = "structured"
                         /\ rec.structured_data = e.result
                         /\ rec.page_summary = e.page_summary
                         /\ rec.keywords = e.keywords
                    ELSE rec = pages[j]

\* the non-empty summaries, in page order, of the pages the run skipped
\* and of the pages whose persist succeeded
RECURSIVE CollectedSummaries(_)
CollectedSummaries(log) ==
    IF log = <<>> THEN <<>>
    ELSE LET e == Head(log)
         IN  (IF (e.skipped \/ e.persist = "ok") /\ NonEmptySummary(e.page_summary)
              THEN <<e.page_summary>> ELSE <<>>) \o CollectedSummaries(Tail(log))

\* C8: the list of page summaries handed to the document-summary synthesis
\* holds no empty summary: it is exactly the non-empty summaries, in
\* ascending page order, of the skipped pages and of the freshly processed
\* pages whose persist succeeded.
C8_NoEmptySummaries ==
    meta_calls > 0 =>
        /\ \A i \in DOMAIN meta_input : NonEmptySummary(meta_input[i])
        /\ meta_input = CollectedSummaries(visit_log)

\* C9: in one run _update_document_metadata is invoked at most once, only
\* after the loop has visited every page and only if a non-empty page
\* summary exists; a run in which every page ends with an empty summary
\* leaves the document record unchanged.
C9_MetadataOnce ==
    /\ meta_calls <= 1
    /\ meta_calls = 1 =>
          /\ pc = "done"
          /\ Len(visit_log) = Len(pages)
          /\ \E i \in DOMAIN meta_input : NonEmptySummary(meta_input[i])
    /\ (client /\ pc = "done" /\ \A p \in DOMAIN page_store : page_store[p].page_summary = VStr(""))
          => doc_record = doc_at_start

\* C12: a run without credential makes no external call, sets every page of
\* the document to status structured with the empty default structure, the
\* summary "[No API key - processing skipped]" and empty keywords, and returns
\* without touching the document record.  Every page get_raw_text gave the
\* run gets one such update, in page order; the page holds these values
\* wherever the database applied it.
C12_NoCredentialRun ==
    (runs > 0 /\ ~client) =>
        /\ pc \in {"nokey", "done"}
        /\ doc_record = doc_at_start
        /\ meta_calls = 0
        /\ \A j \in DOMAIN visit_log :
              /\ visit_log[j].page_num = pages[j].page_num
              /\ ~visit_log[j].called
              /\ ~visit_log[j].skipped
              /\ visit_log[j].result = EmptyStructure("failed")
              /\ visit_log[j].page_summary = VStr("[No API key - processing skipped]")
              /\ visit_log[j].keywords = VList(<<>>)
              /\ visit_log[j].persist = "ok" =>
                    LET page == page_store[visit_log[j].page_num]
                    IN  /\ page.status = "structured"
                        /\ page.structured_data = EmptyStructure("failed")
                        /\ page.page_summary = VStr("[No API key - processing skipped]")
                        /\ page.keywords = VList(<<>>)
        /\ pc = "done" => Len(visit_log) = Len(pages)

\* a run without credential has ended with every page of the document marked
C12_Witness ==
    /\ runs > 0
    /\ ~client
    /\ pc = "done"
    /\ Len(visit_log) = NumPages
    /\ \A i \in 1..NumPages :
          /\ page_store[i].status = "structured"
          /\ page_store[i].page_summary = VStr("[No API key - processing skipped]")
    /\ doc_record.status = "raw"

(***************************************************************************)
(* Properties of the reads of a stored document                            *)
(***************************************************************************)
\* create_document_structure has returned for a stored document whose
\* records the collections delivered
Aggregated ==
    /\ view.pc = "ret"
    /\ view.op = "create_document_structure"
    /\ view.doc # EmptyDict
    /\ view.read_ok

\* the structured_data of the page is present and a non-empty map
HasMap(page) ==
    /\ "structured_data" \in DOMAIN page
    /\ page.structured_data.t = "dict"
    /\ page.structured_data.obj # EmptyDict

\* the items of the map-typed key_fields of the page
KeyFieldItems(page) ==
    IF HasMap(page) /\ "key_fields" \in DOMAIN page.structured_data.obj
          /\ page.structured_data.obj["key_fields"].t = "dict"
    THEN page.structured_data.obj["key_fields"].d
    ELSE {}

\* the stored pages whose key_fields contain the key
Holders(key) == {i \in DOMAIN view.pages : \E it \in KeyFieldItems(view.pages[i]) : it[1] = key}

\* C13: the key_fields merge is last-write-wins by ascending page_num: the
\* keys of all_key_fields are the keys of the map-typed key_fields of the
\* pages whose structured_data is a non-empty map, and each key carries the
\* value it has on the highest-numbered such page that contains it.
C13_LastWriteWins ==
    Aggregated =>
        /\ view.out.found
        /\ DOMAIN view.out.all_key_fields =
              UNION {{it[1] : it \in KeyFieldItems(view.pages[i])} : i \in DOMAIN view.pages}
        /\ \A key \in DOMAIN view.out.all_key_fields :
              LET last == CHOOSE i \in Holders(key) :
                              \A j \in Holders(key) :
                                  view.pages[j].page_num <= view.pages[i].page_num
              IN  <<key, view.out.all_key_fields[key]>> \in KeyFieldItems(view.pages[last])

\* page 3, inserted first, carries 2024-02-01 and page 1, inserted after it,
\* carries 2024-01-01: the aggregate has the value of page 3
C13_Witness ==
    /\ Aggregated
    /\ Len(view.pages) = 3
    /\ view.pages[1].page_num = 3 /\ view.pages[1] = StoredPage(3, [status |-> "structured", structured_data |-> StoredB])
    /\ view.pages[2].page_num = 1 /\ view.pages[2] = StoredPage(1, [status |-> "structured", structured_data |-> StoredA])
    /\ view.out.all_key_fields["invoice_date"] = "2024-02-01"
    /\ view.out.all_key_fields["vendor"] = "ACME"

\* the list the page holds under the field, when its structured_data is a
\* map and the field a list
ListOf(page, field) ==
    IF HasMap(page) /\ field \in DOMAIN page.structured_data.obj
          /\ page.structured_data.obj[field].t = "list"
    THEN page.structured_data.obj[field].q
    ELSE <<>>

\* the stored page with the given number
PageNumbered(n) == view.pages[CHOOSE i \in DOMAIN view.pages : view.pages[i].page_num = n]

\* the lists of the pages numbered 1..n under the field, concatenated
RECURSIVE ConcatUpTo(_, _)
ConcatUpTo(field, n) ==
    IF n = 0 THEN <<>> ELSE ConcatUpTo(field, n - 1) \o ListOf(PageNumbered(n), field)

\* C14: all_sections, all_measurements and all_tables are the concatenation,
\* in ascending page_num order with duplicates kept, of the lists of the pages
\* whose structured_data is present and a map; a page with missing, empty or
\* non-map structured_data contributes nothing and the call still returns.
C14_Concatenation ==
    Aggregated =>
        /\ view.out.found
        /\ view.out.all_sections = ConcatUpTo("sections", Len(view.pages))
        /\ view.out.all_measurements = ConcatUpTo("measurements", Len(view.pages))
        /\ view.out.all_tables = ConcatUpTo("tables", Len(view.pages))

\* pages 2, 3, 1 in insertion order, page 3 holding a list instead of a map:
\* the sections of page 1 come first and the repeated section is kept
C14_Witness ==
    /\ Aggregated
    /\ Len(view.pages) = 3
    /\ view.pages[1] = StoredPage(2, [status |-> "structured", structured_data |-> StoredB])
    /\ view.pages[2] = StoredPage(3, [status |-> "structured",
                                      structured_data |-> PVal(VList(<<"x">>))])
    /\ view.pages[3] = StoredPage(1, [status |-> "structured", structured_data |-> StoredA])
    /\ view.out.all_sections = <<"intro", "intro", "terms">>
    /\ view.out.all_measurements = <<"5 mm">>
    /\ view.out.all_tables = <<"t1", "t1">>

(***************************************************************************)
(* Properties of the document metadata                                     *)
(***************************************************************************)
\* the items xs[1..n] with every repetition of an earlier item left out
RECURSIVE FirstOccurrences(_, _)
FirstOccurrences(xs, n) ==
    IF n = 0 THEN <<>>
    ELSE FirstOccurrences(xs, n - 1)
            \o (IF \E j \in 1..(n - 1) : xs[j] = xs[n] THEN <<>> ELSE <<xs[n]>>)

\* the first 30 of them
FirstThirtyUnique(xs) ==
    LET u == FirstOccurrences(xs, Len(xs)) IN SubSeq(u, 1, IF Len(u) < 30 THEN Len(u) ELSE 30)

\* the keywords, in traversal order, of the pages the run skipped and of
\* the pages whose persist succeeded
RECURSIVE CollectedKeywords(_)
CollectedKeywords(log) ==
    IF log = <<>> THEN <<>>
    ELSE LET e == Head(log)
         IN  (IF (e.skipped \/ e.persist = "ok") /\ e.keywords.t = "list"
              THEN e.keywords.q ELSE <<>>) \o CollectedKeywords(Tail(log))

\* C15: the keywords _update_document_metadata writes on the document are
\* the keywords collected across the pages in traversal order, deduplicated
\* keeping the first occurrence and cut to the first 30 unique values; in
\* every state the keywords of the document record hold no duplicate and at
\* most 30 entries.
C15_KeywordDedup ==
    /\ Len(doc_record.keywords) <= 30
    /\ \A i, j \in DOMAIN doc_record.keywords :
          doc_record.keywords[i] = doc_record.keywords[j] => i = j
    /\ (pc = "done" /\ meta_calls = 1 /\ doc_record # doc_at_start) =>
          /\ all_keywords = CollectedKeywords(visit_log)
          /\ doc_record.keywords = FirstThirtyUnique(all_keywords)

\* page 1 gave the keywords a, b and page 2 the 32 keywords a, k1 .. k31:
\* the document keeps a, b, k1 .. k28
C15_Witness ==
    /\ pc = "done"
    /\ meta_calls = 1
    /\ Len(all_keywords) = 2 + NumManyKeywords
    /\ all_keywords[1] = "a" /\ all_keywords[2] = "b" /\ all_keywords[3] = "a"
    /\ Len(doc_record.keywords) = 30
    /\ doc_record.keywords[1] = "a"
    /\ doc_record.keywords[2] = "b"
    /\ doc_record.keywords[3] = "k1"
    /\ doc_record.keywords[30] = "k28"

GdsReturned == gds.pc = "ret"

\* C16: generate_document_summary makes an external call only when given
\* two or more summaries; with zero summaries it returns the empty string
\* and with exactly one it returns that summary verbatim, in both cases
\* without an external call.
C16_SummaryShortcut ==
    GdsReturned =>
        /\ gds.out.called => Len(gds.page_summaries) >= 2
        /\ Len(gds.page_summaries) = 0 =>
              ~gds.out.called /\ ~gds.out.raised /\ gds.out.ret = VStr("")
        /\ Len(gds.page_summaries) = 1 =>
              ~gds.out.called /\ ~gds.out.raised /\ gds.out.ret = gds.page_summaries[1]

\* one summary was given while the service would have failed: it came back
\* verbatim and no call was made
C16_Witness ==
    /\ GdsReturned
    /\ gds.page_summaries = <<VStr("S1")>>
    /\ gds.outcome = Raise("RateLimitError")
    /\ ~gds.out.called
    /\ gds.out.ret = VStr("S1")

\* "Document with N pages. " followed by the first summary of the list
FallbackSummary(page_summaries) ==
    VStr("Document with " \o ToString(Len(page_summaries)) \o " pages. "
            \o page_summaries[1].s)

\* C17: generate_document_summary never raises: when the external call
\* fails for N >= 2 summaries it returns "Document with N pages. " followed
\* by the first summary, and process_document still completes and persists
\* that value as document_summary.  After the metadata step of a run that
\* collected two or more summaries, with the documents collection taking
\* the write, the document is structured and carries the synthesis of the
\* service or that fallback.
C17_SummaryFallback ==
    (pc = "done" /\ meta_calls = 1 /\ Len(meta_input) >= 2 /\ db.meta_ok) =>
        /\ doc_record.status = "structured"
        /\ \/ doc_record.document_summary = VStr("DS")
           \/ /\ meta_input[1].t = "str"
              /\ doc_record.document_summary = FallbackSummary(meta_input)

(***************************************************************************)
(* Termination of process_document                                         *)
(***************************************************************************)
Running == pc \in {"nokey", "loop", "page_call", "summary_call"}

\* C18: every run of process_document terminates whatever the external
\* collaborators do, a request that never answers included: the structuring
\* call and the summary call are both bounded by a timeout, so a run that
\* has started always comes to its end.
C18_RunsTerminate == Running ~> RunEnded

\* the run has ended after its summary request got no answer: the request
\* timed out and the document carries the fallback summary
C18_Witness ==
    /\ pc = "done"
    /\ client
    /\ Len(visit_log) = NumPages
    /\ visit_log[1].called
    /\ db.meta_exc = "APITimeoutError"
    /\ db.meta_ok
    /\ Len(meta_input) >= 2
    /\ doc_record.document_summary = FallbackSummary(meta_input)

(***************************************************************************)
(* Properties of the status reads                                          *)
(***************************************************************************)
\* the document has at least one page and every page is structured, by the
\* pages in the collection when the read made its last request
AllPagesStructured ==
    /\ view.pages # <<>>
    /\ \A i \in DOMAIN view.pages : view.pages[i].status = "structured"

\* C19: the status of a listed document is a computed view of its pages:
\* get_all_documents reports structured exactly when the document has at
\* least one page and every page is structured, and processing otherwise,
\* whatever status the document record stores; get_document_status reports
\* is_complete under the same condition and 0 <= processed_pages <= total_pages.
\* The reads are those the collections answer for a document they found,
\* made while the save, the task of the document, other callers and
\* delete_document go on.
C19_ComputedStatus ==
    (view.pc = "ret" /\ view.doc # EmptyDict /\ view.read_ok) =>
        /\ view.op = "get_all_documents" =>
              /\ Len(view.out) = 1
              /\ view.out[1].status = IF AllPagesStructured THEN "structured" ELSE "processing"
        /\ view.op = "get_document_status" =>
              /\ view.out.found
              /\ view.out.is_complete = AllPagesStructured
              /\ 0 <= view.out.processed_pages
              /\ view.out.processed_pages <= view.out.total_pages

(***************************************************************************)
(* Properties of _needs_ocr                                                *)
(***************************************************************************)
OcrReturned == ocr.pc = "ret"

\* the pages inspected: the first min(3, page count)
Sampled == 1..(IF Len(ocr.texts) < 3 THEN Len(ocr.texts) ELSE 3)

\* inspecting the document fails: it cannot be opened or a sampled page
\* cannot be read
InspectionFails == ocr.open_fails \/ ocr.fails_at \in Sampled

\* the characters of the text between its leading and trailing whitespace
Trimmed(s) ==
    IF \A i \in DOMAIN s : s[i] = 0 THEN <<>>
    ELSE LET first == CHOOSE i \in DOMAIN s : s[i] # 0 /\ \A j \in 1..(i - 1) : s[j] = 0
             last == CHOOSE i \in DOMAIN s : s[i] # 0 /\ \A j \in (i + 1)..Len(s) : s[j] = 0
         IN  SubSeq(s, first, last)

\* C20 as stated: _needs_ocr returns true exactly when at least one of the
\* first min(3, page count) pages has fewer than 50 characters of extracted
\* text, or when inspecting the document fails; a page of exactly 50
\* characters does not trigger OCR.
C20_NeedsOcrExtracted ==
    OcrReturned =>
        (ocr.out <=> (InspectionFails \/ \E i \in Sampled : Len(ocr.texts[i]) < 50))

\* C20 amended: _needs_ocr returns true exactly when at least one of the
\* first min(3, page count) pages has fewer than 50 characters of extracted
\* text once its leading and trailing whitespace is removed, or when
\* inspecting the document fails; pages after the third never influence the
\* result, and a page of exactly 50 such characters does not trigger OCR.
C20_NeedsOcr ==
    OcrReturned =>
        (ocr.out <=> (InspectionFails \/ \E i \in Sampled : Len(Trimmed(ocr.texts[i])) < 50))

\* three pages of exactly 50 characters, one of them followed by whitespace,
\* then an empty fourth page that cannot be read: no OCR
C20_Witness ==
    /\ OcrReturned
    /\ Len(ocr.texts) = 4
    /\ ocr.texts[1] = Text(50)
    /\ ocr.texts[2] = Text(50) \o <<0>>
    /\ ocr.texts[3] = Text(50)
    /\ ocr.texts[4] = <<>>
    /\ ocr.fails_at = 4
    /\ ~ocr.open_fails
    /\ ~ocr.out

(***************************************************************************)
(* Properties of the life of a document in the collections                 *)
(***************************************************************************)
\* the structured_data of the page carries a processing_status
HasProcessingStatus(page) == "processing_status" \in DOMAIN page.structured_data

\* C21: in every reachable state, after any sequence of ingestion, runs of
\* process_document with or without credential and calls of update_page_data
\* and update_structured_text, a page with status structured has a
\* structured_data whose processing_status is set
C21_PageStateInvariant ==
    \A page_num \in DOMAIN page_store :
        page_store[page_num].status = "structured" => HasProcessingStatus(page_store[page_num])

\* the pages stored before and after a step
Kept == (DOMAIN page_store) \cap (DOMAIN page_store')

\* the text extract_text_from_pdf gave for the page
ExtractedText(page_num) == [i \in 1..page_num |-> i]

\* C24: once save_pdf_with_pages has created a page, no process_document
\* step, update_page_data or update_structured_text call or read changes its
\* raw_text or its page_num (its doc_id is the key of the store); the page
\* stays until delete_document removes the pages of the whole document.
\* Pages appear only where the save inserts them and disappear only where
\* delete_document removes all of them
C24_RawTextImmutable ==
    [][/\ \A p \in Kept : /\ page_store'[p].raw_text = page_store[p].raw_text
                           /\ page_store'[p].page_num = page_store[p].page_num
       /\ (DOMAIN page_store # DOMAIN page_store') =>
              \/ db.phase = "inserting" /\ db'.phase # "inserting" /\ page_store = <<>>
              \/ db.del = "none" /\ db'.del = "pages" /\ page_store' = <<>>]_vars

\* the task has finished on a two-page document one page of which a direct
\* call had updated, and both pages still hold the text extracted
C24_Witness ==
    /\ db.calls = 1
    /\ pc = "done"
    /\ Len(page_store) = 2
    /\ \A p \in 1..2 : /\ page_store[p].status = "structured"
                        /\ page_store[p].raw_text = ExtractedText(p)

\* C25: whenever the status stored on the document record is structured,
\* every page of the document has status structured; a run in which
\* update_page_data failed for a page that is still raw does not store
\* status structured on the document
C25_DocumentStatusImpliesPages ==
    (doc_record # EmptyDict /\ doc_record.status = "structured") =>
        \A page_num \in DOMAIN page_store : page_store[page_num].status = "structured"

\* delete_document has made its delete_many and its delete_one, the latter
\* while the task of the document was running
Deleted == db.del = "done" /\ db.del_pc \in {"nokey", "loop", "page_call", "summary_call"}

\* the step is an iteration of the task that called update_page_data
UpdateIssued ==
    /\ Len(visit_log') = Len(visit_log) + 1
    /\ ~visit_log'[Len(visit_log')].skipped
    /\ visit_log'[Len(visit_log')].persist # "none"

\* C26: deleting a document while its task is still running never
\* resurrects data: once delete_document has removed the pages and the
\* document record, every later update_page_data of the task returns false
\* and creates no page, _update_document_metadata creates no document
\* record, and no record of the document exists after the task has ended
C26_DeleteNeverResurrects ==
    /\ [](Deleted => (page_store = <<>> /\ doc_record = EmptyDict))
    /\ [][(Deleted /\ UpdateIssued) => visit_log'[Len(visit_log')].persist = "failed"]_vars

\* C27: at the end of a run of process_document with a configured
\* credential over a document of N pages, every page has been counted
\* exactly once, as processed or as failed: processed_count + failed_count
\* = N, also when update_page_data returned false for some pages
C27_EveryPageCountedOnce ==
    (pc = "done" /\ client) => processed_count + failed_count = Len(pages)

\* the pages the run loaded as a run without credential had marked them
MarkedPages ==
    {i \in DOMAIN pages : /\ pages[i].status = "structured"
                          /\ pages[i].page_summary = VStr("[No API key - processing skipped]")
                          /\ pages[i].keywords = VList(<<>>)}

\* number of sentinel summaries in a list of summaries
SentinelCount(summaries) ==
    Cardinality({j \in DOMAIN summaries :
                    summaries[j] = VStr("[No API key - processing skipped]")})

\* C28: a page marked by a run without credential (status structured,
\* sentinel summary) is skipped by every later run that has a credential:
\* it is never submitted to structure_text nor rewritten, and its sentinel
\* summary is collected and is part of the input of the document-summary
\* synthesis of the run
C28_MarkedPagesSkipped ==
    client =>
        /\ \A j \in DOMAIN visit_log :
              visit_log[j].page_num \in MarkedPages =>
                  /\ visit_log[j].skipped
                  /\ ~visit_log[j].called
                  /\ visit_log[j].persist = "none"
        /\ \A i \in MarkedPages : page_store[i] = pages[i]
        /\ SentinelCount(all_summaries) = Cardinality({i \in MarkedPages : i < idx})
        /\ meta_calls >= 1 => SentinelCount(meta_input) = Cardinality(MarkedPages)

\* the second run has a credential and found page 1 marked and page 2 raw:
\* it skipped page 1, structured page 2 and synthesised the document
\* summary from the sentinel and the summary of page 2
C28_Witness ==
    /\ client
    /\ runs = 2
    /\ pc = "done"
    /\ MarkedPages = {1}
    /\ visit_log[1].skipped
    /\ visit_log[2].called /\ visit_log[2].persist = "ok"
    /\ meta_calls = 1
    /\ meta_input = <<VStr("[No API key - processing skipped]"), VStr("S2")>>

\* number of pages of the store with status structured
StructuredPages(store) ==
    Cardinality({p \in DOMAIN store : store[p].status = "structured"})

\* C29: page status is monotonic: once a page has status structured, no step
\* of process_document whatever the structuring outcome, no failed persist,
\* no update_page_data or update_structured_text call and no read sets it
\* back to raw, and the number of structured pages of the document never
\* decreases until the document is deleted
C29_StatusMonotonic ==
    [][/\ \A p \in Kept : page_store[p].status = "structured" =>
                               page_store'[p].status = "structured"
       /\ db'.del = db.del =>
              StructuredPages(page_store') >= StructuredPages(page_store)]_vars

\* page 1 was structured without summary by a direct call before the task
\* loaded it; the task reprocessed it, the request failed, the persist of
\* the failure went through, and the page is still structured
C29_Witness ==
    /\ db.calls = 1
    /\ db.phase = "saved"
    /\ Len(visit_log) >= 1
    /\ pages[1].status = "structured"
    /\ visit_log[1].called
    /\ visit_log[1].persist = "ok"
    /\ visit_log[1].result = DefaultTagged("api_error")
    /\ page_store[1].status = "structured"
    /\ page_store[1].structured_data = DefaultTagged("api_error")

\* the save has returned None or the doc_id and nothing else has touched the
\* document (save_pdf_pages stores and returns as save_pdf_with_pages does
\* wherever it returns)
JustSaved ==
    /\ db.phase \in {"saved", "failed"}
    /\ db.ret \in {"None", "doc_id"}
    /\ db.calls = 0
    /\ db.del = "none"
    /\ runs = 0

\* C30: ingestion is all-or-nothing: when save_pdf_with_pages returns None
\* (empty page list, or a failure while inserting the page records) no
\* document record and no page record of the generated doc_id remains in the
\* store; when it returns a doc_id the store holds the document record with
\* status raw and one page record per extracted page, each with status raw,
\* empty page_summary, empty keywords and empty structured_data
C30_IngestionAllOrNothing ==
    JustSaved =>
        IF db.ret = "None"
        THEN doc_record = EmptyDict /\ page_store = <<>>
        ELSE /\ doc_record # EmptyDict
             /\ doc_record.status = "raw"
             /\ Len(page_store) = db.given
             /\ \A i \in 1..db.given :
                   /\ page_store[i].page_num = i
                   /\ page_store[i].status = "raw"
                   /\ page_store[i].page_summary = VStr("")
                   /\ page_store[i].keywords = VList(<<>>)
                   /\ page_store[i].structured_data = EmptyDict

(***************************************************************************)
(* Properties of the parse and validate step of structure_text             *)
(***************************************************************************)
\* structure_text received a reply with content from the external call
ReplyReceived == StReturned /\ st.out.called /\ st.outcome.kind = "reply"

\* the reply after the removal of the fences and the surrounding blanks
Cleaned == CleanContent(st.outcome.content)

TagKey == "processing_status"

\* C22: for a reply received from the external call, a cleaned reply that is
\* not valid JSON gives the default structure tagged json_error; a JSON
\* object with all six required keys gives that object unchanged plus the
\* tag success; a JSON object missing some required keys gives every parsed
\* key with its parsed value, every missing required key with its empty
\* default, and the tag partial_success
C22_ParseAndValidate ==
    ReplyReceived =>
        /\ ~st.out.raised
        /\ ~IsJson(Cleaned) =>
              st.out.result =
                  [summary |-> VStr(""), keywords |-> VList(<<>>), sections |-> VList(<<>>),
                   measurements |-> VList(<<>>), key_fields |-> VDict({}),
                   tables |-> VList(<<>>), processing_status |-> VStr("json_error")]
        /\ (IsJson(Cleaned) /\ JsonLoads(Cleaned).t = "dict") =>
              LET parsed == JsonLoads(Cleaned).obj
                  result == st.out.result
              IN  IF RequiredKeys \subseteq DOMAIN parsed
                  THEN /\ DOMAIN result = DOMAIN parsed \cup {TagKey}
                       /\ \A k \in DOMAIN parsed \ {TagKey} : result[k] = parsed[k]
                       /\ result[TagKey] = VStr("success")
                  ELSE /\ DOMAIN result = DOMAIN parsed \cup RequiredKeys \cup {TagKey}
                       /\ \A k \in DOMAIN parsed \ {TagKey} : result[k] = parsed[k]
                       /\ \A k \in RequiredKeys \ DOMAIN parsed :
                              result[k] = get_default_structure[k]
                       /\ result[TagKey] = VStr("partial_success")

\* a fenced reply with two of the six keys came back merged over the defaults
C22_Witness ==
    /\ ReplyReceived
    /\ st.outcome.content = <<Blank, "partial", Blank>>
    /\ st.out.result.summary = VStr("P")
    /\ st.out.result.sections = VList(<<>>)
    /\ st.out.result.processing_status = VStr("partial_success")

(***************************************************************************)
(* Properties of the background tasks of the web application               *)
(***************************************************************************)
\* the threads that have not ended
RunningTasks == {i \in DOMAIN app.tasks : app.tasks[i].pc # "ended"}

\* C23: at any time at most one task is processing a given document: a task
\* is started only by the upload of a new document with a freshly generated
\* doc_id, so no two running tasks work on the same doc_id, no page record
\* is read or written by two tasks, and every record a task touches is one
\* of its own doc_id
C23_OneTaskPerDocument ==
    /\ \A i, j \in RunningTasks : i # j => app.tasks[i].doc_id # app.tasks[j].doc_id
    /\ \A a, b \in app.accesses :
          (a.doc_id = b.doc_id /\ a.page_num = b.page_num) => a.task = b.task
    /\ \A a \in app.accesses : a.doc_id = app.tasks[a.task].doc_id

\* two threads are inside their loops at the same time and each has written
\* a page
C23_Witness ==
    /\ Len(app.tasks) = 2
    /\ app.tasks[1].pc = "loop" /\ app.tasks[1].idx = 2
    /\ app.tasks[2].pc = "loop" /\ app.tasks[2].idx = 2
    /\ \E a, b \in app.accesses : a.task = 1 /\ b.task = 2
====
